---- MODULE Spec2Model ----
(***************************************************************************)
(* Lending ledger of the library system (Book, Member, Library classes of  *)
(* "Library Management System.py" inside src/Bankingstr.py), and the bank   *)
(* account system (src/unnamed/part_000), and the task manager ("To Do     *)
(* App.py" inside src/Bankingstr.py).                                      *)
(*                                                                         *)
(* Strings are tuples of one-character strings so that strip(), title()    *)
(* and lower() are computed character by character.  Time is an integer    *)
(* number of clock ticks; DayTicks ticks make one day.                     *)
(***************************************************************************)
EXTENDS Integers, Sequences, FiniteSets, TLC

VARIABLES
    books,              \* Library.books: book_id -> Book
    members,            \* Library.members: member_id -> Member
    isbn_index,         \* Library.isbn_index: isbn -> book_id
    book_id_counter,    \* Book.book_id_counter (class variable)
    member_id_counter,  \* Member.member_id_counter (class variable)
    now,                \* the reading datetime.now() gives
    result,             \* what the last Library call returned and printed
    other,              \* a second Library: its books, members and isbn_index
    accounts,           \* BankingSystem.accounts: account_number -> BankAccount
    account_counter,    \* BankAccount.account_counter (class variable)
    tasks,              \* TaskManager.tasks: the list of Task objects
    task_id_counter,    \* Task.task_id_counter (class variable)
    save_file,          \* what tasks.json holds
    task_ids            \* history: every task_id a task of the list has had

vars == <<books, members, isbn_index, book_id_counter, member_id_counter, now, result, other,
          accounts, account_counter, tasks, task_id_counter, save_file, task_ids>>

ledger == <<books, members, isbn_index>>

\* the library system
library == <<books, members, isbn_index, book_id_counter, member_id_counter, now, other>>

\* the bank account system
bank == <<accounts, account_counter>>

\* the task manager
todo == <<tasks, task_id_counter, save_file, task_ids>>

-----------------------------------------------------------------------------
(* Bounds of the model *)

MaxBooks == 2       \* distinct catalog entries created
MaxMembers == 2     \* members registered
MaxCopies == 2      \* total copies one entry may reach
DayTicks == 2       \* clock ticks per day
MaxClockSteps == 1  \* clock steps taken

(* Program constants *)

FirstBookId == 1
FirstMemberId == 100
FirstAccountNumber == 1000
FirstTaskId == 1
LoanDays == 14
FineRate == 1

LoanPeriod == LoanDays * DayTicks

\* how far the clock moves between two calls of the ledger
ClockSteps == {LoanPeriod + DayTicks}

MaxNow == MaxClockSteps * (LoanPeriod + DayTicks)

None == 0

\* tasks.json does not exist
NoFile == [exists |-> FALSE, tasks |-> <<>>]

-----------------------------------------------------------------------------
(* str methods *)

Space == " "

UpperOf == [c \in {"a", "b", "l", "o", "w", "x"} |->
              CASE c = "a" -> "A" [] c = "b" -> "B" [] c = "l" -> "L"
                [] c = "o" -> "O" [] c = "w" -> "W" [] c = "x" -> "X"]

LowerOf == [c \in {"A", "B", "L", "O", "W", "X"} |->
              CASE c = "A" -> "a" [] c = "B" -> "b" [] c = "L" -> "l"
                [] c = "O" -> "o" [] c = "W" -> "w" [] c = "X" -> "x"]

IsLower(c) == c \in DOMAIN UpperOf

IsUpper(c) == c \in DOMAIN LowerOf

IsCased(c) == IsLower(c) \/ IsUpper(c)

ToUpper(c) == IF IsLower(c) THEN UpperOf[c] ELSE c

ToLower(c) == IF IsUpper(c) THEN LowerOf[c] ELSE c

RECURSIVE LStrip(_)
LStrip(s) == IF s # <<>> /\ Head(s) = Space THEN LStrip(Tail(s)) ELSE s

RECURSIVE RStrip(_)
RStrip(s) == IF s # <<>> /\ s[Len(s)] = Space THEN RStrip(SubSeq(s, 1, Len(s) - 1)) ELSE s

\* str.strip()
Strip(s) == RStrip(LStrip(s))

\* str.title(): a cased character is upper-cased when it starts a word and
\* lower-cased when it follows a cased character
Title(s) == [i \in 1..Len(s) |->
               IF i > 1 /\ IsCased(s[i - 1]) THEN ToLower(s[i]) ELSE ToUpper(s[i])]

\* str.lower()
Lower(s) == [i \in 1..Len(s) |-> ToLower(s[i])]

\* ord() of the characters in use
Ord == [c \in {" ", "1", "2", "@", "A", "B", "L", "X", "a", "b", "l", "x"} |->
          CASE c = " " -> 32 [] c = "1" -> 49 [] c = "2" -> 50 [] c = "@" -> 64
            [] c = "A" -> 65 [] c = "B" -> 66 [] c = "L" -> 76 [] c = "X" -> 88
            [] c = "a" -> 97 [] c = "b" -> 98 [] c = "l" -> 108 [] c = "x" -> 120]

\* s < t on str: by the first differing character, a proper prefix first
RECURSIVE StrLess(_, _)
StrLess(s, t) ==
    IF t = <<>> THEN FALSE
    ELSE IF s = <<>> THEN TRUE
    ELSE IF Head(s) = Head(t) THEN StrLess(Tail(s), Tail(t))
    ELSE Ord[Head(s)] < Ord[Head(t)]

-----------------------------------------------------------------------------
(* dict and list helpers *)

DictPut(d, k, v) == [x \in (DOMAIN d) \cup {k} |-> IF x = k THEN v ELSE d[x]]

DictPop(d, k) == [x \in (DOMAIN d) \ {k} |-> d[x]]

EmptyDict == <<>>

Count(s, x) == Cardinality({i \in 1..Len(s) : s[i] = x})

Contains(s, x) == \E i \in 1..Len(s) : s[i] = x

\* list.remove(x): drops the first occurrence
ListRemove(s, x) ==
    LET i == CHOOSE j \in 1..Len(s) : s[j] = x /\ \A k \in 1..(j - 1) : s[k] # x
    IN  SubSeq(s, 1, i - 1) \o SubSeq(s, i + 1, Len(s))

\* the elements of a set of integers in increasing order
RECURSIVE Ascending(_)
Ascending(S) ==
    IF S = {} THEN <<>>
    ELSE LET least == CHOOSE x \in S : \A y \in S : x <= y
         IN  <<least>> \o Ascending(S \ {least})

\* dict.values() of a dict whose keys were inserted in increasing order
DictValues(d) == LET keys == Ascending(DOMAIN d) IN [i \in 1..Len(keys) |-> d[keys[i]]]

\* the orders in which a dict may hold its keys
KeyOrders(d) ==
    {s \in [1..Cardinality(DOMAIN d) -> DOMAIN d] :
        \A i, j \in DOMAIN s : i # j => s[i] # s[j]}

\* one step of sorted(key = title): x goes behind every element that is not above it
RECURSIVE InsertByTitle(_, _)
InsertByTitle(s, x) ==
    IF s = <<>> THEN <<x>>
    ELSE IF StrLess(x.title, Head(s).title) THEN <<x>> \o s
    ELSE <<Head(s)>> \o InsertByTitle(Tail(s), x)

\* sorted(s, key=lambda b: b.title): ascending, equal keys in the order of s
RECURSIVE SortedByTitle(_)
SortedByTitle(s) ==
    IF s = <<>> THEN <<>>
    ELSE InsertByTitle(SortedByTitle(SubSeq(s, 1, Len(s) - 1)), s[Len(s)])

RECURSIVE InsertByDueDate(_, _)
InsertByDueDate(s, x) ==
    IF s = <<>> THEN <<x>>
    ELSE IF x.due_date < Head(s).due_date THEN <<x>> \o s
    ELSE <<Head(s)>> \o InsertByDueDate(Tail(s), x)

\* sorted(s, key=lambda x: x['due_date'])
RECURSIVE SortedByDueDate(_)
SortedByDueDate(s) ==
    IF s = <<>> THEN <<>>
    ELSE InsertByDueDate(SortedByDueDate(SubSeq(s, 1, Len(s) - 1)), s[Len(s)])

\* the lists of a list of lists, one after the other
RECURSIVE Flatten(_)
Flatten(ss) == IF ss = <<>> THEN <<>> ELSE Head(ss) \o Flatten(Tail(ss))

\* a started day counts as a whole one
Days_RoundUp(d) == (d + DayTicks - 1) \div DayTicks

\* timedelta.days of a difference of d ticks
Days(d) == d \div DayTicks

\* abs() of an integer
Abs(n) == IF n < 0 THEN -n ELSE n

-----------------------------------------------------------------------------
(* class Book *)

Message == [no_copies |-> "No copies available",
            already   |-> "Member already has this book",
            not_issued |-> "Book not issued to this member",
            returned  |-> "Book returned successfully",
            no_book   |-> "Book ID not found",
            no_member |-> "Member ID not found",
            bad_copies |-> "Number of copies must be positive",
            bad_member |-> "Name and email cannot be empty",
            key_error |-> "KeyError",
            bad_deposit |-> "Deposit amount must be positive",
            bad_withdrawal |-> "Withdrawal amount must be positive",
            insufficient |-> "Insufficient funds!",
            bad_holder |-> "Account holder name cannot be empty",
            bad_initial |-> "Initial deposit cannot be negative",
            bad_amount |-> "Invalid deposit amount!",
            bad_float |-> "could not convert string to float",
            no_account |-> "Account number not found",
            bad_title |-> "Task title cannot be empty",
            no_task |-> "Task ID not found",
            already_completed |-> "Task is already completed",
            already_pending |-> "Task is already pending",
            cancelled |-> "Deletion cancelled",
            none      |-> ""]

NoRecord == [member_id |-> None, member_name |-> <<>>, issue_date |-> 0, due_date |-> 0]

NoInfo == [days_borrowed |-> 0, is_overdue |-> FALSE, overdue_days |-> 0, fine |-> 0]

\* op: the method called; ok: it succeeded; ret: the identifier add_book or
\* register_member returned; msg: the message of the failure; info: return_info;
\* rows: the lines a view method printed
NoResult == [op |-> "none", ok |-> TRUE, ret |-> None, msg |-> Message.none, info |-> NoInfo,
             rows |-> <<>>]

\* Book.__init__ with the identifier the class counter holds
Book_init(id, title, author, isbn, copies) ==
    [book_id |-> id, title |-> title, author |-> author, isbn |-> isbn,
     total_copies |-> copies, available_copies |-> copies, issued_to |-> EmptyDict]

\* off by one: a book with no copy left counts as available
Book_is_available_OffByOne(book) == book.available_copies >= 0

Book_is_available(book) == book.available_copies > 0

\* the issued copy is not taken off the available count
Book_issue_book_NoDecrement(book, member_id, member_name, t) ==
    IF ~Book_is_available(book)
    THEN [ok |-> FALSE, msg |-> Message.no_copies, record |-> NoRecord, book |-> book]
    ELSE IF member_id \in DOMAIN book.issued_to
    THEN [ok |-> FALSE, msg |-> Message.already, record |-> NoRecord, book |-> book]
    ELSE LET issue_record == [member_id |-> member_id, member_name |-> member_name,
                              issue_date |-> t, due_date |-> t + LoanPeriod]
         IN  [ok |-> TRUE, msg |-> Message.none, record |-> issue_record,
              book |-> [book EXCEPT !.issued_to = DictPut(@, member_id, issue_record)]]

\* the two checks in the opposite order
Book_issue_book_DupCheckFirst(book, member_id, member_name, t) ==
    IF member_id \in DOMAIN book.issued_to
    THEN [ok |-> FALSE, msg |-> Message.already, record |-> NoRecord, book |-> book]
    ELSE IF ~Book_is_available(book)
    THEN [ok |-> FALSE, msg |-> Message.no_copies, record |-> NoRecord, book |-> book]
    ELSE LET issue_record == [member_id |-> member_id, member_name |-> member_name,
                              issue_date |-> t, due_date |-> t + LoanPeriod]
         IN  [ok |-> TRUE, msg |-> Message.none, record |-> issue_record,
              book |-> [book EXCEPT !.issued_to = DictPut(@, member_id, issue_record),
                                    !.available_copies = @ - 1]]

\* the check for a loan the member already holds is missing
Book_issue_book_NoDupCheck(book, member_id, member_name, t) ==
    IF ~Book_is_available(book)
    THEN [ok |-> FALSE, msg |-> Message.no_copies, record |-> NoRecord, book |-> book]
    ELSE LET issue_record == [member_id |-> member_id, member_name |-> member_name,
                              issue_date |-> t, due_date |-> t + LoanPeriod]
         IN  [ok |-> TRUE, msg |-> Message.none, record |-> issue_record,
              book |-> [book EXCEPT !.issued_to = DictPut(@, member_id, issue_record),
                                    !.available_copies = @ - 1]]

\* the copy is taken before the check for a loan the member already holds
Book_issue_book_EarlyDecrement(book, member_id, member_name, t) ==
    IF ~Book_is_available(book)
    THEN [ok |-> FALSE, msg |-> Message.no_copies, record |-> NoRecord, book |-> book]
    ELSE IF member_id \in DOMAIN book.issued_to
    THEN [ok |-> FALSE, msg |-> Message.already, record |-> NoRecord,
          book |-> [book EXCEPT !.available_copies = @ - 1]]
    ELSE LET issue_record == [member_id |-> member_id, member_name |-> member_name,
                              issue_date |-> t, due_date |-> t + LoanPeriod]
         IN  [ok |-> TRUE, msg |-> Message.none, record |-> issue_record,
              book |-> [book EXCEPT !.issued_to = DictPut(@, member_id, issue_record),
                                    !.available_copies = @ - 1]]

\* the loan period is added in clock ticks, not in days
Book_issue_book_DueInTicks(book, member_id, member_name, t) ==
    IF ~Book_is_available(book)
    THEN [ok |-> FALSE, msg |-> Message.no_copies, record |-> NoRecord, book |-> book]
    ELSE IF member_id \in DOMAIN book.issued_to
    THEN [ok |-> FALSE, msg |-> Message.already, record |-> NoRecord, book |-> book]
    ELSE LET issue_record == [member_id |-> member_id, member_name |-> member_name,
                              issue_date |-> t, due_date |-> t + LoanDays]
         IN  [ok |-> TRUE, msg |-> Message.none, record |-> issue_record,
              book |-> [book EXCEPT !.issued_to = DictPut(@, member_id, issue_record),
                                    !.available_copies = @ - 1]]

\* Book.issue_book at clock reading t: the returned pair and the book afterwards
Book_issue_book(book, member_id, member_name, t) ==
    IF ~Book_is_available(book)
    THEN [ok |-> FALSE, msg |-> Message.no_copies, record |-> NoRecord, book |-> book]
    ELSE IF member_id \in DOMAIN book.issued_to
    THEN [ok |-> FALSE, msg |-> Message.already, record |-> NoRecord, book |-> book]
    ELSE LET issue_record == [member_id |-> member_id, member_name |-> member_name,
                              issue_date |-> t, due_date |-> t + LoanPeriod]
         IN  [ok |-> TRUE, msg |-> Message.none, record |-> issue_record,
              book |-> [book EXCEPT !.issued_to = DictPut(@, member_id, issue_record),
                                    !.available_copies = @ - 1]]

\* the copy is put back before the check that the member holds a loan
Book_return_book_EarlyIncrement(book, member_id, t) ==
    IF member_id \notin DOMAIN book.issued_to
    THEN [ok |-> FALSE, msg |-> Message.not_issued, info |-> NoInfo,
          book |-> [book EXCEPT !.available_copies = @ + 1]]
    ELSE LET issue_record == book.issued_to[member_id]
             days_borrowed == Days(t - issue_record.issue_date)
             is_overdue == t > issue_record.due_date
             overdue_days == IF is_overdue THEN Days(t - issue_record.due_date) ELSE 0
         IN  [ok |-> TRUE, msg |-> Message.returned,
              info |-> [days_borrowed |-> days_borrowed, is_overdue |-> is_overdue,
                        overdue_days |-> overdue_days,
                        fine |-> IF is_overdue THEN overdue_days * FineRate ELSE 0],
              book |-> [book EXCEPT !.issued_to = DictPop(@, member_id),
                                    !.available_copies = @ + 1]]

\* a return at the due date already counts as overdue
Book_return_book_OverdueAtDue(book, member_id, t) ==
    IF member_id \notin DOMAIN book.issued_to
    THEN [ok |-> FALSE, msg |-> Message.not_issued, info |-> NoInfo, book |-> book]
    ELSE LET issue_record == book.issued_to[member_id]
             days_borrowed == Days(t - issue_record.issue_date)
             is_overdue == t >= issue_record.due_date
             overdue_days == IF is_overdue THEN Days(t - issue_record.due_date) ELSE 0
         IN  [ok |-> TRUE, msg |-> Message.returned,
              info |-> [days_borrowed |-> days_borrowed, is_overdue |-> is_overdue,
                        overdue_days |-> overdue_days,
                        fine |-> IF is_overdue THEN overdue_days * FineRate ELSE 0],
              book |-> [book EXCEPT !.issued_to = DictPop(@, member_id),
                                    !.available_copies = @ + 1]]

\* the overdue days are counted from the issue date
Book_return_book_OverdueFromIssue(book, member_id, t) ==
    IF member_id \notin DOMAIN book.issued_to
    THEN [ok |-> FALSE, msg |-> Message.not_issued, info |-> NoInfo, book |-> book]
    ELSE LET issue_record == book.issued_to[member_id]
             days_borrowed == Days(t - issue_record.issue_date)
             is_overdue == t > issue_record.due_date
             overdue_days == IF is_overdue THEN Days(t - issue_record.issue_date) ELSE 0
         IN  [ok |-> TRUE, msg |-> Message.returned,
              info |-> [days_borrowed |-> days_borrowed, is_overdue |-> is_overdue,
                        overdue_days |-> overdue_days,
                        fine |-> IF is_overdue THEN overdue_days * FineRate ELSE 0],
              book |-> [book EXCEPT !.issued_to = DictPop(@, member_id),
                                    !.available_copies = @ + 1]]

\* the overdue days are counted from now to the due date
Book_return_book_DueMinusNow(book, member_id, t) ==
    IF member_id \notin DOMAIN book.issued_to
    THEN [ok |-> FALSE, msg |-> Message.not_issued, info |-> NoInfo, book |-> book]
    ELSE LET issue_record == book.issued_to[member_id]
             days_borrowed == Days(t - issue_record.issue_date)
             is_overdue == t > issue_record.due_date
             overdue_days == IF is_overdue THEN Days(issue_record.due_date - t) ELSE 0
         IN  [ok |-> TRUE, msg |-> Message.returned,
              info |-> [days_borrowed |-> days_borrowed, is_overdue |-> is_overdue,
                        overdue_days |-> overdue_days,
                        fine |-> IF is_overdue THEN overdue_days * FineRate ELSE 0],
              book |-> [book EXCEPT !.issued_to = DictPop(@, member_id),
                                    !.available_copies = @ + 1]]

\* the return drops every loan record of the book, not only the member's
Book_return_book_ClearAll(book, member_id, t) ==
    IF member_id \notin DOMAIN book.issued_to
    THEN [ok |-> FALSE, msg |-> Message.not_issued, info |-> NoInfo, book |-> book]
    ELSE LET issue_record == book.issued_to[member_id]
             days_borrowed == Days(t - issue_record.issue_date)
             is_overdue == t > issue_record.due_date
             overdue_days == IF is_overdue THEN Days(t - issue_record.due_date) ELSE 0
         IN  [ok |-> TRUE, msg |-> Message.returned,
              info |-> [days_borrowed |-> days_borrowed, is_overdue |-> is_overdue,
                        overdue_days |-> overdue_days,
                        fine |-> IF is_overdue THEN overdue_days * FineRate ELSE 0],
              book |-> [book EXCEPT !.issued_to = EmptyDict,
                                    !.available_copies = @ + 1]]

\* the loan record is removed but the copy is not put back
Book_return_book_NoIncrement(book, member_id, t) ==
    IF member_id \notin DOMAIN book.issued_to
    THEN [ok |-> FALSE, msg |-> Message.not_issued, info |-> NoInfo, book |-> book]
    ELSE LET issue_record == book.issued_to[member_id]
             days_borrowed == Days(t - issue_record.issue_date)
             is_overdue == t > issue_record.due_date
             overdue_days == IF is_overdue THEN Days(t - issue_record.due_date) ELSE 0
         IN  [ok |-> TRUE, msg |-> Message.returned,
              info |-> [days_borrowed |-> days_borrowed, is_overdue |-> is_overdue,
                        overdue_days |-> overdue_days,
                        fine |-> IF is_overdue THEN overdue_days * FineRate ELSE 0],
              book |-> [book EXCEPT !.issued_to = DictPop(@, member_id)]]

\* Book.return_book at clock reading t: the returned triple and the book afterwards
Book_return_book(book, member_id, t) ==
    IF member_id \notin DOMAIN book.issued_to
    THEN [ok |-> FALSE, msg |-> Message.not_issued, info |-> NoInfo, book |-> book]
    ELSE LET issue_record == book.issued_to[member_id]
             days_borrowed == Days(t - issue_record.issue_date)
             is_overdue == t > issue_record.due_date
             overdue_days == IF is_overdue THEN Days(t - issue_record.due_date) ELSE 0
         IN  [ok |-> TRUE, msg |-> Message.returned,
              info |-> [days_borrowed |-> days_borrowed, is_overdue |-> is_overdue,
                        overdue_days |-> overdue_days,
                        fine |-> IF is_overdue THEN overdue_days * FineRate ELSE 0],
              book |-> [book EXCEPT !.issued_to = DictPop(@, member_id),
                                    !.available_copies = @ + 1]]

-----------------------------------------------------------------------------
(* class Member *)

Member_init(id, name, email) ==
    [member_id |-> id, name |-> name, email |-> email,
     borrowed_books |-> <<>>, total_fines |-> 0]

\* the identifier is not appended
Member_borrow_book_Noop(member, book_id) == member

Member_borrow_book(member, book_id) ==
    [member EXCEPT !.borrowed_books = Append(@, book_id)]

\* the identifier is found but left in the list
Member_return_book_NoRemove(member, book_id) ==
    IF Contains(member.borrowed_books, book_id)
    THEN [found |-> TRUE, member |-> member]
    ELSE [found |-> FALSE, member |-> member]

\* Member.return_book: the returned flag and the member afterwards
Member_return_book(member, book_id) ==
    IF Contains(member.borrowed_books, book_id)
    THEN [found |-> TRUE,
          member |-> [member EXCEPT !.borrowed_books = ListRemove(@, book_id)]]
    ELSE [found |-> FALSE, member |-> member]

\* the fine replaces the total
Member_add_fine_Overwrite(member, amount) ==
    [member EXCEPT !.total_fines = amount]

Member_add_fine(member, amount) ==
    [member EXCEPT !.total_fines = @ + amount]

-----------------------------------------------------------------------------
(* class Library *)

\* Library.__init__: no books, no members, an empty index
NoLibrary == [books |-> EmptyDict, members |-> EmptyDict, isbn_index |-> EmptyDict]

Init ==
    /\ books = EmptyDict
    /\ members = EmptyDict
    /\ isbn_index = EmptyDict
    /\ book_id_counter = FirstBookId
    /\ member_id_counter = FirstMemberId
    /\ now = 0
    /\ other = NoLibrary
    /\ accounts = EmptyDict
    /\ account_counter = FirstAccountNumber
    /\ tasks = <<>>
    /\ task_id_counter = FirstTaskId
    /\ save_file = NoFile
    /\ task_ids = {}
    /\ result = NoResult

Failure(op, msg) == [NoResult EXCEPT !.op = op, !.ok = FALSE, !.msg = msg]

Success(op, ret, msg, info) ==
    [NoResult EXCEPT !.op = op, !.ret = ret, !.msg = msg, !.info = info]

\* a merge raises total_copies only
Library_add_book_TotalOnly(title, author, isbn, copies) ==
    LET t == Title(Strip(title))
        a == Title(Strip(author))
        i == Strip(isbn)
    IN  IF copies <= 0
        THEN /\ result' = Failure("add_book", Message.bad_copies)
             /\ UNCHANGED <<books, members, isbn_index, book_id_counter,
                            member_id_counter, now, other, bank, todo>>
        ELSE IF i \in DOMAIN isbn_index
        THEN LET existing_book_id == isbn_index[i]
             IN  /\ books' = [books EXCEPT ![existing_book_id].total_copies = @ + copies]
                 /\ result' = Success("add_book", existing_book_id, Message.none, NoInfo)
                 /\ UNCHANGED <<members, isbn_index, book_id_counter,
                                member_id_counter, now, other, bank, todo>>
        ELSE LET book == Book_init(book_id_counter, t, a, i, copies)
             IN  /\ book_id_counter' = book_id_counter + 1
                 /\ books' = DictPut(books, book.book_id, book)
                 /\ isbn_index' = DictPut(isbn_index, i, book.book_id)
                 /\ result' = Success("add_book", book.book_id, Message.none, NoInfo)
                 /\ UNCHANGED <<members, member_id_counter, now, other, bank, todo>>

\* a new book is not entered in the ISBN index
Library_add_book_NoIndex(title, author, isbn, copies) ==
    LET t == Title(Strip(title))
        a == Title(Strip(author))
        i == Strip(isbn)
    IN  IF copies <= 0
        THEN /\ result' = Failure("add_book", Message.bad_copies)
             /\ UNCHANGED <<books, members, isbn_index, book_id_counter,
                            member_id_counter, now, other, bank, todo>>
        ELSE IF i \in DOMAIN isbn_index
        THEN LET existing_book_id == isbn_index[i]
             IN  /\ books' = [books EXCEPT ![existing_book_id].total_copies = @ + copies,
                                           ![existing_book_id].available_copies = @ + copies]
                 /\ result' = Success("add_book", existing_book_id, Message.none, NoInfo)
                 /\ UNCHANGED <<members, isbn_index, book_id_counter,
                                member_id_counter, now, other, bank, todo>>
        ELSE LET book == Book_init(book_id_counter, t, a, i, copies)
             IN  /\ book_id_counter' = book_id_counter + 1
                 /\ books' = DictPut(books, book.book_id, book)
                 /\ result' = Success("add_book", book.book_id, Message.none, NoInfo)
                 /\ UNCHANGED <<members, isbn_index, member_id_counter, now, other, bank, todo>>

\* the copy count is rejected only when negative
Library_add_book_ZeroAccepted(title, author, isbn, copies) ==
    LET t == Title(Strip(title))
        a == Title(Strip(author))
        i == Strip(isbn)
    IN  IF copies < 0
        THEN /\ result' = Failure("add_book", Message.bad_copies)
             /\ UNCHANGED <<books, members, isbn_index, book_id_counter,
                            member_id_counter, now, other, bank, todo>>
        ELSE IF i \in DOMAIN isbn_index
        THEN LET existing_book_id == isbn_index[i]
             IN  /\ books' = [books EXCEPT ![existing_book_id].total_copies = @ + copies,
                                           ![existing_book_id].available_copies = @ + copies]
                 /\ result' = Success("add_book", existing_book_id, Message.none, NoInfo)
                 /\ UNCHANGED <<members, isbn_index, book_id_counter,
                                member_id_counter, now, other, bank, todo>>
        ELSE LET book == Book_init(book_id_counter, t, a, i, copies)
             IN  /\ book_id_counter' = book_id_counter + 1
                 /\ books' = DictPut(books, book.book_id, book)
                 /\ isbn_index' = DictPut(isbn_index, i, book.book_id)
                 /\ result' = Success("add_book", book.book_id, Message.none, NoInfo)
                 /\ UNCHANGED <<members, member_id_counter, now, other, bank, todo>>

\* the Book is constructed, and its identifier taken, before the ISBN is looked up
Library_add_book_EagerBook(title, author, isbn, copies) ==
    LET t == Title(Strip(title))
        a == Title(Strip(author))
        i == Strip(isbn)
    IN  IF copies <= 0
        THEN /\ result' = Failure("add_book", Message.bad_copies)
             /\ UNCHANGED <<books, members, isbn_index, book_id_counter,
                            member_id_counter, now, other, bank, todo>>
        ELSE LET book == Book_init(book_id_counter, t, a, i, copies)
             IN  IF i \in DOMAIN isbn_index
                 THEN LET existing_book_id == isbn_index[i]
                      IN  /\ book_id_counter' = book_id_counter + 1
                          /\ books' = [books EXCEPT
                                         ![existing_book_id].total_copies = @ + copies,
                                         ![existing_book_id].available_copies = @ + copies]
                          /\ result' = Success("add_book", existing_book_id,
                                               Message.none, NoInfo)
                          /\ UNCHANGED <<members, isbn_index, member_id_counter, now, other, bank, todo>>
                 ELSE /\ book_id_counter' = book_id_counter + 1
                      /\ books' = DictPut(books, book.book_id, book)
                      /\ isbn_index' = DictPut(isbn_index, i, book.book_id)
                      /\ result' = Success("add_book", book.book_id, Message.none, NoInfo)
                      /\ UNCHANGED <<members, member_id_counter, now, other, bank, todo>>

\* a merge sets the copy counts to the copies given
Library_add_book_MergeOverwrite(title, author, isbn, copies) ==
    LET t == Title(Strip(title))
        a == Title(Strip(author))
        i == Strip(isbn)
    IN  IF copies <= 0
        THEN /\ result' = Failure("add_book", Message.bad_copies)
             /\ UNCHANGED <<books, members, isbn_index, book_id_counter,
                            member_id_counter, now, other, bank, todo>>
        ELSE IF i \in DOMAIN isbn_index
        THEN LET existing_book_id == isbn_index[i]
             IN  /\ books' = [books EXCEPT ![existing_book_id].total_copies = copies,
                                           ![existing_book_id].available_copies = copies]
                 /\ result' = Success("add_book", existing_book_id, Message.none, NoInfo)
                 /\ UNCHANGED <<members, isbn_index, book_id_counter,
                                member_id_counter, now, other, bank, todo>>
        ELSE LET book == Book_init(book_id_counter, t, a, i, copies)
             IN  /\ book_id_counter' = book_id_counter + 1
                 /\ books' = DictPut(books, book.book_id, book)
                 /\ isbn_index' = DictPut(isbn_index, i, book.book_id)
                 /\ result' = Success("add_book", book.book_id, Message.none, NoInfo)
                 /\ UNCHANGED <<members, member_id_counter, now, other, bank, todo>>

\* a merge also takes over the title and the author given
Library_add_book_MergeRetitle(title, author, isbn, copies) ==
    LET t == Title(Strip(title))
        a == Title(Strip(author))
        i == Strip(isbn)
    IN  IF copies <= 0
        THEN /\ result' = Failure("add_book", Message.bad_copies)
             /\ UNCHANGED <<books, members, isbn_index, book_id_counter,
                            member_id_counter, now, other, bank, todo>>
        ELSE IF i \in DOMAIN isbn_index
        THEN LET existing_book_id == isbn_index[i]
             IN  /\ books' = [books EXCEPT ![existing_book_id].total_copies = @ + copies,
                                           ![existing_book_id].available_copies = @ + copies,
                                           ![existing_book_id].title = t,
                                           ![existing_book_id].author = a]
                 /\ result' = Success("add_book", existing_book_id, Message.none, NoInfo)
                 /\ UNCHANGED <<members, isbn_index, book_id_counter,
                                member_id_counter, now, other, bank, todo>>
        ELSE LET book == Book_init(book_id_counter, t, a, i, copies)
             IN  /\ book_id_counter' = book_id_counter + 1
                 /\ books' = DictPut(books, book.book_id, book)
                 /\ isbn_index' = DictPut(isbn_index, i, book.book_id)
                 /\ result' = Success("add_book", book.book_id, Message.none, NoInfo)
                 /\ UNCHANGED <<members, member_id_counter, now, other, bank, todo>>

\* Library.add_book
Library_add_book(title, author, isbn, copies) ==
    LET t == Title(Strip(title))
        a == Title(Strip(author))
        i == Strip(isbn)
    IN  IF copies <= 0
        THEN /\ result' = Failure("add_book", Message.bad_copies)
             /\ UNCHANGED <<books, members, isbn_index, book_id_counter,
                            member_id_counter, now, other, bank, todo>>
        ELSE IF i \in DOMAIN isbn_index
        THEN LET existing_book_id == isbn_index[i]
             IN  /\ books' = [books EXCEPT ![existing_book_id].total_copies = @ + copies,
                                           ![existing_book_id].available_copies = @ + copies]
                 /\ result' = Success("add_book", existing_book_id, Message.none, NoInfo)
                 /\ UNCHANGED <<members, isbn_index, book_id_counter,
                                member_id_counter, now, other, bank, todo>>
        ELSE LET book == Book_init(book_id_counter, t, a, i, copies)
             IN  /\ book_id_counter' = book_id_counter + 1
                 /\ books' = DictPut(books, book.book_id, book)
                 /\ isbn_index' = DictPut(isbn_index, i, book.book_id)
                 /\ result' = Success("add_book", book.book_id, Message.none, NoInfo)
                 /\ UNCHANGED <<members, member_id_counter, now, other, bank, todo>>

\* a member is refused only when the name and the email are both empty
Library_register_member_BothEmpty(name, email) ==
    LET n == Title(Strip(name))
        e == Lower(Strip(email))
    IN  IF n = <<>> /\ e = <<>>
        THEN /\ result' = Failure("register_member", Message.bad_member)
             /\ UNCHANGED <<books, members, isbn_index, book_id_counter,
                            member_id_counter, now, other, bank, todo>>
        ELSE LET member == Member_init(member_id_counter, n, e)
             IN  /\ member_id_counter' = member_id_counter + 1
                 /\ members' = DictPut(members, member.member_id, member)
                 /\ result' = Success("register_member", member.member_id, Message.none, NoInfo)
                 /\ UNCHANGED <<books, isbn_index, book_id_counter, now, other, bank, todo>>

\* Library.register_member
Library_register_member(name, email) ==
    LET n == Title(Strip(name))
        e == Lower(Strip(email))
    IN  IF n = <<>> \/ e = <<>>
        THEN /\ result' = Failure("register_member", Message.bad_member)
             /\ UNCHANGED <<books, members, isbn_index, book_id_counter,
                            member_id_counter, now, other, bank, todo>>
        ELSE LET member == Member_init(member_id_counter, n, e)
             IN  /\ member_id_counter' = member_id_counter + 1
                 /\ members' = DictPut(members, member.member_id, member)
                 /\ result' = Success("register_member", member.member_id, Message.none, NoInfo)
                 /\ UNCHANGED <<books, isbn_index, book_id_counter, now, other, bank, todo>>

\* the member's list is updated before the outcome of Book.issue_book is looked at
Library_issue_book_BorrowFirst(book_id, member_id) ==
    IF book_id \notin DOMAIN books
    THEN /\ result' = Failure("issue_book", Message.no_book)
         /\ UNCHANGED <<books, members, isbn_index, book_id_counter,
                        member_id_counter, now, other, bank, todo>>
    ELSE IF member_id \notin DOMAIN members
    THEN /\ result' = Failure("issue_book", Message.no_member)
         /\ UNCHANGED <<books, members, isbn_index, book_id_counter,
                        member_id_counter, now, other, bank, todo>>
    ELSE LET r == Book_issue_book(books[book_id], member_id, members[member_id].name, now)
         IN  /\ books' = [books EXCEPT ![book_id] = r.book]
             /\ members' = [members EXCEPT ![member_id] = Member_borrow_book(@, book_id)]
             /\ result' = IF r.ok THEN Success("issue_book", None, Message.none, NoInfo)
                                  ELSE Failure("issue_book", r.msg)
             /\ UNCHANGED <<isbn_index, book_id_counter, member_id_counter, now, other, bank, todo>>

\* Library.issue_book
Library_issue_book(book_id, member_id) ==
    IF book_id \notin DOMAIN books
    THEN /\ result' = Failure("issue_book", Message.no_book)
         /\ UNCHANGED <<books, members, isbn_index, book_id_counter,
                        member_id_counter, now, other, bank, todo>>
    ELSE IF member_id \notin DOMAIN members
    THEN /\ result' = Failure("issue_book", Message.no_member)
         /\ UNCHANGED <<books, members, isbn_index, book_id_counter,
                        member_id_counter, now, other, bank, todo>>
    ELSE LET r == Book_issue_book(books[book_id], member_id, members[member_id].name, now)
         IN  IF ~r.ok
             THEN /\ books' = [books EXCEPT ![book_id] = r.book]
                  /\ result' = Failure("issue_book", r.msg)
                  /\ UNCHANGED <<members, isbn_index, book_id_counter,
                                 member_id_counter, now, other, bank, todo>>
             ELSE /\ books' = [books EXCEPT ![book_id] = r.book]
                  /\ members' = [members EXCEPT
                                   ![member_id] = Member_borrow_book(@, book_id)]
                  /\ result' = Success("issue_book", None, Message.none, NoInfo)
                  /\ UNCHANGED <<isbn_index, book_id_counter, member_id_counter, now, other, bank, todo>>

\* the member is looked up before the book
Library_return_book_MemberFirst(book_id, member_id) ==
    IF member_id \notin DOMAIN members
    THEN /\ result' = Failure("return_book", Message.no_member)
         /\ UNCHANGED <<books, members, isbn_index, book_id_counter,
                        member_id_counter, now, other, bank, todo>>
    ELSE IF book_id \notin DOMAIN books
    THEN /\ result' = Failure("return_book", Message.no_book)
         /\ UNCHANGED <<books, members, isbn_index, book_id_counter,
                        member_id_counter, now, other, bank, todo>>
    ELSE LET r == Book_return_book(books[book_id], member_id, now)
         IN  IF ~r.ok
             THEN /\ books' = [books EXCEPT ![book_id] = r.book]
                  /\ result' = Failure("return_book", r.msg)
                  /\ UNCHANGED <<members, isbn_index, book_id_counter,
                                 member_id_counter, now, other, bank, todo>>
             ELSE LET returned == Member_return_book(members[member_id], book_id).member
                  IN  /\ books' = [books EXCEPT ![book_id] = r.book]
                      /\ members' = [members EXCEPT ![member_id] =
                                       IF r.info.is_overdue
                                       THEN Member_add_fine(returned, r.info.fine)
                                       ELSE returned]
                      /\ result' = Success("return_book", None, r.msg, r.info)
                      /\ UNCHANGED <<isbn_index, book_id_counter, member_id_counter, now, other, bank, todo>>

\* Library.return_book
Library_return_book(book_id, member_id) ==
    IF book_id \notin DOMAIN books
    THEN /\ result' = Failure("return_book", Message.no_book)
         /\ UNCHANGED <<books, members, isbn_index, book_id_counter,
                        member_id_counter, now, other, bank, todo>>
    ELSE IF member_id \notin DOMAIN members
    THEN /\ result' = Failure("return_book", Message.no_member)
         /\ UNCHANGED <<books, members, isbn_index, book_id_counter,
                        member_id_counter, now, other, bank, todo>>
    ELSE LET r == Book_return_book(books[book_id], member_id, now)
         IN  IF ~r.ok
             THEN /\ books' = [books EXCEPT ![book_id] = r.book]
                  /\ result' = Failure("return_book", r.msg)
                  /\ UNCHANGED <<members, isbn_index, book_id_counter,
                                 member_id_counter, now, other, bank, todo>>
             ELSE LET returned == Member_return_book(members[member_id], book_id).member
                  IN  /\ books' = [books EXCEPT ![book_id] = r.book]
                      /\ members' = [members EXCEPT ![member_id] =
                                       IF r.info.is_overdue
                                       THEN Member_add_fine(returned, r.info.fine)
                                       ELSE returned]
                      /\ result' = Success("return_book", None, r.msg, r.info)
                      /\ UNCHANGED <<isbn_index, book_id_counter, member_id_counter, now, other, bank, todo>>

\* what a view method leaves behind: the lines it printed
Viewed(op, rows) == [NoResult EXCEPT !.op = op, !.rows = rows]

\* self.books.values(): the books in the order of their insertion, which is
\* the order of their identifiers
BooksValues == DictValues(books)

\* the line view_available_books and view_all_books print for a book
BookRow(book) ==
    [book_id |-> book.book_id, title |-> book.title, author |-> book.author,
     available_copies |-> book.available_copies, total_copies |-> book.total_copies,
     isbn |-> book.isbn]

AvailableBooks == SelectSeq(BooksValues, Book_is_available)

\* the available books are printed in the order the dict holds them
Library_view_available_books_Unsorted ==
    /\ result' = Viewed("view_available_books",
                        [i \in 1..Len(AvailableBooks) |-> BookRow(AvailableBooks[i])])
    /\ UNCHANGED <<books, members, isbn_index, book_id_counter, member_id_counter, now, other, bank, todo>>

\* Library.view_available_books
Library_view_available_books ==
    LET available_books == AvailableBooks
        sorted == SortedByTitle(available_books)
    IN  /\ result' = IF available_books = <<>>
                      THEN Viewed("view_available_books", <<>>)
                      ELSE Viewed("view_available_books",
                                  [i \in 1..Len(sorted) |-> BookRow(sorted[i])])
        /\ UNCHANGED <<books, members, isbn_index, book_id_counter, member_id_counter, now, other, bank, todo>>

\* the entry view_issued_books appends for the loan of member_id on book at reading t
IssuedRow(book, member_id, t) ==
    LET record == book.issued_to[member_id]
        days_remaining == Days(record.due_date - t)
    IN  [book_id |-> book.book_id, title |-> book.title,
         member_id |-> member_id, member_name |-> record.member_name,
         issue_date |-> record.issue_date, due_date |-> record.due_date,
         days_remaining |-> days_remaining, is_overdue |-> days_remaining < 0]

\* the list view_issued_books builds: book after book, each book's loans in
\* the order order[book_id] of its issued_to
IssuedBooks(order) ==
    Flatten([i \in 1..Len(BooksValues) |->
               LET book == BooksValues[i]
                   keys == order[book.book_id]
               IN  [j \in 1..Len(keys) |-> IssuedRow(book, keys[j], now)]])

\* the rows are printed in the order in which the list was built
Library_view_issued_books_Unsorted(order) ==
    /\ result' = Viewed("view_issued_books", IssuedBooks(order))
    /\ UNCHANGED <<books, members, isbn_index, book_id_counter, member_id_counter, now, other, bank, todo>>

\* Library.view_issued_books, where order[b] is the order in which the
\* issued_to of book b holds its keys
Library_view_issued_books(order) ==
    LET issued_books == IssuedBooks(order)
    IN  /\ result' = IF issued_books = <<>>
                      THEN Viewed("view_issued_books", <<>>)
                      ELSE Viewed("view_issued_books", SortedByDueDate(issued_books))
        /\ UNCHANGED <<books, members, isbn_index, book_id_counter, member_id_counter, now, other, bank, todo>>

\* the line view_member_info prints for a borrowed book
BorrowedRow(book, member_id, t) ==
    LET record == book.issued_to[member_id]
        days_remaining == Days(record.due_date - t)
    IN  [book_id |-> book.book_id, title |-> book.title, due_date |-> record.due_date,
         days_remaining |-> days_remaining, is_overdue |-> days_remaining < 0]

\* Library.view_member_info: self.books[book_id] and book.issued_to[member_id]
\* raise KeyError, which the method does not catch
Library_view_member_info(member_id) ==
    /\ result' =
          IF member_id \notin DOMAIN members
          THEN Failure("view_member_info", Message.no_member)
          ELSE LET member == members[member_id]
                   n == Len(member.borrowed_books)
               IN  IF \E i \in 1..n :
                         \/ member.borrowed_books[i] \notin DOMAIN books
                         \/ member_id \notin DOMAIN books[member.borrowed_books[i]].issued_to
                   THEN Failure("view_member_info", Message.key_error)
                   ELSE [Viewed("view_member_info",
                                [i \in 1..n |->
                                   BorrowedRow(books[member.borrowed_books[i]], member_id, now)])
                         EXCEPT !.ret = member_id,
                                !.info = [NoInfo EXCEPT !.fine = member.total_fines]]
    /\ UNCHANGED <<books, members, isbn_index, book_id_counter, member_id_counter, now, other, bank, todo>>

\* Library.add_book called on the second Library: its own dicts, the counter
\* of class Book
Other_add_book(title, author, isbn, copies) ==
    LET t == Title(Strip(title))
        a == Title(Strip(author))
        i == Strip(isbn)
    IN  IF copies <= 0
        THEN /\ result' = Failure("add_book", Message.bad_copies)
             /\ UNCHANGED <<books, members, isbn_index, book_id_counter,
                            member_id_counter, now, other, bank, todo>>
        ELSE IF i \in DOMAIN other.isbn_index
        THEN LET existing_book_id == other.isbn_index[i]
             IN  /\ other' = [other EXCEPT
                                 !.books[existing_book_id].total_copies = @ + copies,
                                 !.books[existing_book_id].available_copies = @ + copies]
                 /\ result' = Success("add_book", existing_book_id, Message.none, NoInfo)
                 /\ UNCHANGED <<books, members, isbn_index, book_id_counter,
                                member_id_counter, now, bank, todo>>
        ELSE LET book == Book_init(book_id_counter, t, a, i, copies)
             IN  /\ book_id_counter' = book_id_counter + 1
                 /\ other' = [other EXCEPT
                                 !.books = DictPut(@, book.book_id, book),
                                 !.isbn_index = DictPut(@, i, book.book_id)]
                 /\ result' = Success("add_book", book.book_id, Message.none, NoInfo)
                 /\ UNCHANGED <<books, members, isbn_index, member_id_counter, now, bank, todo>>

\* Library.register_member called on the second Library
Other_register_member(name, email) ==
    LET n == Title(Strip(name))
        e == Lower(Strip(email))
    IN  IF n = <<>> \/ e = <<>>
        THEN /\ result' = Failure("register_member", Message.bad_member)
             /\ UNCHANGED <<books, members, isbn_index, book_id_counter,
                            member_id_counter, now, other, bank, todo>>
        ELSE LET member == Member_init(member_id_counter, n, e)
             IN  /\ member_id_counter' = member_id_counter + 1
                 /\ other' = [other EXCEPT !.members = DictPut(@, member.member_id, member)]
                 /\ result' = Success("register_member", member.member_id, Message.none, NoInfo)
                 /\ UNCHANGED <<books, members, isbn_index, book_id_counter, now, bank, todo>>

\* time passing between two calls
Tick(d) ==
    /\ now' = now + d
    /\ UNCHANGED <<books, members, isbn_index, book_id_counter, member_id_counter, result,
                   other, bank, todo>>

-----------------------------------------------------------------------------
(* The caller's inputs *)

TitleInputs == {<<"a", "B">>, <<" ", "A", "b">>}
AuthorInputs == {<<"x", " ">>}
IsbnInputs == {<<"1">>, <<" ", "1">>, <<"2">>}
CopiesInputs == (-1)..MaxCopies
NameInputs == {<<" ">>, <<"a", "L">>}
EmailInputs == {<<>>, <<"A", "@", "b">>}
BookIdInputs == FirstBookId..(FirstBookId + MaxBooks - 1)
MemberIdInputs == FirstMemberId..(FirstMemberId + MaxMembers - 1)

\* the ledger after the step holds at most so many books, members and copies of a book
Within(maxBooks, maxMembers, maxCopies) ==
    /\ Cardinality(DOMAIN books') <= maxBooks
    /\ Cardinality(DOMAIN members') <= maxMembers
    /\ \A b \in DOMAIN books' : books'[b].total_copies <= maxCopies

AddBook == \E title \in TitleInputs, author \in AuthorInputs, isbn \in IsbnInputs,
              copies \in CopiesInputs :
              /\ Library_add_book(title, author, isbn, copies)
              /\ Within(MaxBooks, MaxMembers, MaxCopies)

RegisterMember == \E name \in NameInputs, email \in EmailInputs :
                     /\ Library_register_member(name, email)
                     /\ Within(MaxBooks, MaxMembers, MaxCopies)

IssueBook == \E book_id \in BookIdInputs, member_id \in MemberIdInputs :
                Library_issue_book(book_id, member_id)

ReturnBook == \E book_id \in BookIdInputs, member_id \in MemberIdInputs :
                 Library_return_book(book_id, member_id)

ClockTick == \E d \in ClockSteps : now + d <= MaxNow /\ Tick(d)

Next == AddBook \/ RegisterMember \/ IssueBook \/ ReturnBook \/ ClockTick

Spec == Init /\ [][Next]_vars

-----------------------------------------------------------------------------
(* The catalog: registrations of many copies and of differing titles, with the
   one member a first register_member call leaves; no clock *)

CatalogCopies == 5   \* total copies one entry may reach

FirstMember ==
    Member_init(FirstMemberId, Title(Strip(<<"a", "L">>)), Lower(Strip(<<"A", "@", "b">>)))

\* the ledger after register_member("aL", "A@b") on a new Library
InitOneMember ==
    /\ books = EmptyDict
    /\ members = DictPut(EmptyDict, FirstMemberId, FirstMember)
    /\ isbn_index = EmptyDict
    /\ book_id_counter = FirstBookId
    /\ member_id_counter = FirstMemberId + 1
    /\ now = 0
    /\ other = NoLibrary
    /\ accounts = EmptyDict
    /\ account_counter = FirstAccountNumber
    /\ tasks = <<>>
    /\ task_id_counter = FirstTaskId
    /\ save_file = NoFile
    /\ task_ids = {}
    /\ result = Success("register_member", FirstMemberId, Message.none, NoInfo)

CatalogTitleInputs == {<<"a", "B">>, <<" ", "b">>}
CatalogCopiesInputs == (-1)..CatalogCopies

AddBookCatalog ==
    \E title \in CatalogTitleInputs, author \in AuthorInputs, isbn \in IsbnInputs,
       copies \in CatalogCopiesInputs :
       /\ Library_add_book(title, author, isbn, copies)
       /\ Within(MaxBooks, MaxMembers, CatalogCopies)

NextCatalog == AddBookCatalog \/ IssueBook \/ ReturnBook

SpecCatalog == InitOneMember /\ [][NextCatalog]_vars

-----------------------------------------------------------------------------
(* One loan under a fine clock: the one member and the one single-copy book
   that a register_member and an add_book call leave *)

HorizonDays == 20   \* days the clock runs for

LoanHorizon == HorizonDays * DayTicks + 1

\* a tick, a day, a loan period
LoanClockSteps == {1, DayTicks, LoanPeriod}

FirstBook ==
    Book_init(FirstBookId, Title(Strip(<<"a", "B">>)), Title(Strip(<<"x", " ">>)),
              Strip(<<" ", "1">>), 1)

\* the ledger after register_member("aL", "A@b") and add_book("aB", "x ", " 1", 1)
InitOneLoan ==
    /\ books = DictPut(EmptyDict, FirstBookId, FirstBook)
    /\ members = DictPut(EmptyDict, FirstMemberId, FirstMember)
    /\ isbn_index = DictPut(EmptyDict, FirstBook.isbn, FirstBookId)
    /\ book_id_counter = FirstBookId + 1
    /\ member_id_counter = FirstMemberId + 1
    /\ now = 0
    /\ other = NoLibrary
    /\ accounts = EmptyDict
    /\ account_counter = FirstAccountNumber
    /\ tasks = <<>>
    /\ task_id_counter = FirstTaskId
    /\ save_file = NoFile
    /\ task_ids = {}
    /\ result = Success("add_book", FirstBookId, Message.none, NoInfo)

ClockTickLoan == \E d \in LoanClockSteps : now + d <= LoanHorizon /\ Tick(d)

NextLoan == IssueBook \/ ReturnBook \/ ClockTickLoan

SpecLoan == InitOneLoan /\ [][NextLoan]_vars

-----------------------------------------------------------------------------
(* The shelf listing: the catalog with titles that differ and titles that
   agree, one member who borrows and returns, and view_available_books *)

ShelfAuthorInputs == {<<"x", " ">>, <<"b">>}

AddBookShelf ==
    \E title \in CatalogTitleInputs, author \in ShelfAuthorInputs, isbn \in IsbnInputs,
       copies \in 1..MaxCopies :
       /\ Library_add_book(title, author, isbn, copies)
       /\ Within(MaxBooks, MaxMembers, MaxCopies)

ViewAvailableBooks == Library_view_available_books

NextShelf == AddBookShelf \/ IssueBook \/ ReturnBook \/ ViewAvailableBooks

SpecShelf == InitOneMember /\ [][NextShelf]_vars

-----------------------------------------------------------------------------
(* The loan listings: the ledger with view_issued_books and view_member_info,
   from the two members that two register_member calls leave *)

SecondMember ==
    Member_init(FirstMemberId + 1, Title(Strip(<<"a", "L">>)), Lower(Strip(<<"A", "@", "b">>)))

\* the ledger after register_member("aL", "A@b") twice on a new Library
InitTwoMembers ==
    /\ books = EmptyDict
    /\ members = DictPut(DictPut(EmptyDict, FirstMemberId, FirstMember),
                         FirstMemberId + 1, SecondMember)
    /\ isbn_index = EmptyDict
    /\ book_id_counter = FirstBookId
    /\ member_id_counter = FirstMemberId + 2
    /\ now = 0
    /\ other = NoLibrary
    /\ accounts = EmptyDict
    /\ account_counter = FirstAccountNumber
    /\ tasks = <<>>
    /\ task_id_counter = FirstTaskId
    /\ save_file = NoFile
    /\ task_ids = {}
    /\ result = Success("register_member", FirstMemberId + 1, Message.none, NoInfo)

\* the two members and an identifier that was never handed out
ViewMemberIdInputs == FirstMemberId..(FirstMemberId + 2)

AddBookViews ==
    \E title \in TitleInputs, author \in AuthorInputs, isbn \in IsbnInputs,
       copies \in 1..MaxCopies :
       /\ Library_add_book(title, author, isbn, copies)
       /\ Within(MaxBooks, MaxMembers, MaxCopies)

\* for every book, an order in which its issued_to may hold its keys
IssuedOrders ==
    LET all == UNION {KeyOrders(books[b].issued_to) : b \in DOMAIN books}
    IN  {order \in [DOMAIN books -> all] :
            \A b \in DOMAIN books : order[b] \in KeyOrders(books[b].issued_to)}

ViewIssuedBooks == \E order \in IssuedOrders : Library_view_issued_books(order)

ViewMemberInfo == \E member_id \in ViewMemberIdInputs : Library_view_member_info(member_id)

IssueBookViews == \E book_id \in BookIdInputs, member_id \in ViewMemberIdInputs :
                     Library_issue_book(book_id, member_id)

ReturnBookViews == \E book_id \in BookIdInputs, member_id \in ViewMemberIdInputs :
                      Library_return_book(book_id, member_id)

NextViews ==
    \/ AddBookViews \/ IssueBookViews \/ ReturnBookViews \/ ClockTick
    \/ ViewIssuedBooks \/ ViewMemberInfo

SpecViews == InitTwoMembers /\ [][NextViews]_vars

-----------------------------------------------------------------------------
(* The listings under the fine clock: the one loan of SpecLoan with
   view_issued_books and view_member_info read at every clock reading *)

ViewMemberInfoLoan == \E member_id \in MemberIdInputs : Library_view_member_info(member_id)

NextLateness ==
    \/ IssueBook \/ ReturnBook \/ ClockTickLoan
    \/ ViewIssuedBooks \/ ViewMemberInfoLoan

SpecLateness == InitOneLoan /\ [][NextLateness]_vars

-----------------------------------------------------------------------------
(* Two ledgers: registrations on two Library objects of one program *)

\* the second Library after the step holds at most so many books, members and
\* copies of a book
WithinOther(maxBooks, maxMembers, maxCopies) ==
    /\ Cardinality(DOMAIN other'.books) <= maxBooks
    /\ Cardinality(DOMAIN other'.members) <= maxMembers
    /\ \A b \in DOMAIN other'.books : other'.books[b].total_copies <= maxCopies

OtherAddBook == \E title \in TitleInputs, author \in AuthorInputs, isbn \in IsbnInputs,
                   copies \in CopiesInputs :
                   /\ Other_add_book(title, author, isbn, copies)
                   /\ WithinOther(MaxBooks, MaxMembers, MaxCopies)

OtherRegisterMember == \E name \in NameInputs, email \in EmailInputs :
                          /\ Other_register_member(name, email)
                          /\ WithinOther(MaxBooks, MaxMembers, MaxCopies)

NextTwoLibraries == AddBook \/ RegisterMember \/ OtherAddBook \/ OtherRegisterMember

SpecTwoLibraries == Init /\ [][NextTwoLibraries]_vars

-----------------------------------------------------------------------------
(* Bank Account & Transaction System (src/unnamed/part_000) *)

MaxAccounts == 2       \* accounts created
MaxTransactions == 2   \* transactions in the history of one account

(* float: a finite value, nan, inf or -inf; "error" stands for the ValueError
   of float() on a string that is no number *)

Fin(n) == [k |-> "fin", v |-> n]
NaN == [k |-> "nan", v |-> 0]
Inf == [k |-> "inf", v |-> 0]
NegInf == [k |-> "-inf", v |-> 0]
NoFloat == [k |-> "error", v |-> 0]

\* float(s) of the strings the caller types
Float == [s \in {"", "-1", "0", "1", "2", "nan", "inf", "x"} |->
            CASE s = "-1" -> Fin(-1) [] s = "0" -> Fin(0) [] s = "1" -> Fin(1)
              [] s = "2" -> Fin(2) [] s = "nan" -> NaN [] s = "inf" -> Inf
              [] OTHER -> NoFloat]

\* a < b on float: false when either side is nan
FLess(a, b) ==
    CASE a.k = "nan" \/ b.k = "nan" -> FALSE
      [] a.k = "fin" /\ b.k = "fin" -> a.v < b.v
      [] a.k = "-inf" -> b.k # "-inf"
      [] a.k = "fin" -> b.k = "inf"
      [] OTHER -> FALSE

\* a <= b on float
FLessEq(a, b) == a.k # "nan" /\ b.k # "nan" /\ (a = b \/ FLess(a, b))

\* a + b on float
FAdd(a, b) ==
    CASE a.k = "nan" \/ b.k = "nan" -> NaN
      [] a.k = "fin" /\ b.k = "fin" -> Fin(a.v + b.v)
      [] a.k = "fin" -> b
      [] b.k = "fin" -> a
      [] a.k = b.k -> a
      [] OTHER -> NaN

\* -a on float
FNeg(a) ==
    CASE a.k = "fin" -> Fin(0 - a.v)
      [] a.k = "inf" -> NegInf
      [] a.k = "-inf" -> Inf
      [] OTHER -> a

\* a - b on float
FSub(a, b) == FAdd(a, FNeg(b))

Zero == Fin(0)

\* sum() of a list of floats: added one after the other, from 0
RECURSIVE FSum(_)
FSum(s) == IF s = <<>> THEN Zero ELSE FAdd(FSum(SubSeq(s, 1, Len(s) - 1)), s[Len(s)])

\* Transaction.__init__
Transaction_init(transaction_type, amount, balance_after, t) ==
    [transaction_type |-> transaction_type, amount |-> amount,
     balance_after |-> balance_after, timestamp |-> t]

\* BankAccount.deposit with amount what float(amount) gives: the returned flag,
\* the message and the account afterwards
BankAccount_deposit(account, amount, is_initial, t) ==
    IF amount = NoFloat
    THEN [ok |-> FALSE, msg |-> Message.bad_float, account |-> account]
    ELSE IF FLessEq(amount, Zero)
    THEN [ok |-> FALSE, msg |-> Message.bad_deposit, account |-> account]
    ELSE LET balance == FAdd(account.balance, amount)
             transaction_type == IF is_initial THEN "Initial Dep" ELSE "Deposit"
             transaction == Transaction_init(transaction_type, amount, balance, t)
         IN  [ok |-> TRUE, msg |-> Message.none,
              account |-> [account EXCEPT
                             !.balance = balance,
                             !.transaction_history = Append(@, transaction)]]

\* the balance is debited before the funds are compared
BankAccount_withdraw_DebitFirst(account, amount, t) ==
    IF amount = NoFloat
    THEN [ok |-> FALSE, msg |-> Message.bad_float, account |-> account]
    ELSE IF FLessEq(amount, Zero)
    THEN [ok |-> FALSE, msg |-> Message.bad_withdrawal, account |-> account]
    ELSE LET balance == FSub(account.balance, amount)
             transaction == Transaction_init("Withdrawal", amount, balance, t)
         IN  IF FLess(account.balance, amount)
             THEN [ok |-> FALSE, msg |-> Message.insufficient,
                   account |-> [account EXCEPT !.balance = balance]]
             ELSE [ok |-> TRUE, msg |-> Message.none,
                   account |-> [account EXCEPT
                                  !.balance = balance,
                                  !.transaction_history = Append(@, transaction)]]

\* BankAccount.withdraw with amount what float(amount) gives
BankAccount_withdraw(account, amount, t) ==
    IF amount = NoFloat
    THEN [ok |-> FALSE, msg |-> Message.bad_float, account |-> account]
    ELSE IF FLessEq(amount, Zero)
    THEN [ok |-> FALSE, msg |-> Message.bad_withdrawal, account |-> account]
    ELSE IF FLess(account.balance, amount)
    THEN [ok |-> FALSE, msg |-> Message.insufficient, account |-> account]
    ELSE LET balance == FSub(account.balance, amount)
             transaction == Transaction_init("Withdrawal", amount, balance, t)
         IN  [ok |-> TRUE, msg |-> Message.none,
              account |-> [account EXCEPT
                             !.balance = balance,
                             !.transaction_history = Append(@, transaction)]]

\* BankAccount.__init__ with the number the class counter holds
BankAccount_init(number, account_holder, initial_deposit, t) ==
    LET account == [account_number |-> number, account_holder |-> account_holder,
                    balance |-> Zero, transaction_history |-> <<>>, is_active |-> TRUE]
    IN  IF FLess(Zero, initial_deposit)
        THEN BankAccount_deposit(account, initial_deposit, TRUE, t).account
        ELSE account

\* the amounts of the transactions whose type is one of types, in history order
RECURSIVE Amounts(_, _)
Amounts(history, types) ==
    IF history = <<>> THEN <<>>
    ELSE LET rest == Amounts(SubSeq(history, 1, Len(history) - 1), types)
             last == history[Len(history)]
         IN  IF last.transaction_type \in types THEN Append(rest, last.amount) ELSE rest

\* BankAccount.get_account_summary: the figures it prints
BankAccount_get_account_summary(account) ==
    LET total_deposits == FSum(Amounts(account.transaction_history, {"Deposit", "Initial Dep"}))
        total_withdrawals == FSum(Amounts(account.transaction_history, {"Withdrawal"}))
    IN  [current_balance |-> account.balance,
         total_deposits |-> total_deposits,
         total_withdrawals |-> total_withdrawals,
         net_change |-> FSub(total_deposits, total_withdrawals),
         total_transactions |-> Len(account.transaction_history)]

\* BankingSystem.create_account
BankingSystem_create_account(account_holder, initial_deposit) ==
    LET holder == Title(Strip(account_holder))
    IN  IF holder = <<>>
        THEN /\ result' = Failure("create_account", Message.bad_holder)
             /\ UNCHANGED <<library, accounts, account_counter, todo>>
        ELSE IF FLess(initial_deposit, Zero)
        THEN /\ result' = Failure("create_account", Message.bad_initial)
             /\ UNCHANGED <<library, accounts, account_counter, todo>>
        ELSE LET account == BankAccount_init(account_counter, holder, initial_deposit, now)
             IN  /\ account_counter' = account_counter + 1
                 /\ accounts' = DictPut(accounts, account.account_number, account)
                 /\ result' = Success("create_account", account.account_number,
                                      Message.none, NoInfo)
                 /\ UNCHANGED <<library, todo>>

\* main, choice 1: the initial deposit is read as a float, no entry as 0
Bank_create_account(holder_name, initial) ==
    LET initial_amount == IF initial = "" THEN Zero ELSE Float[initial]
    IN  IF initial_amount = NoFloat
        THEN /\ result' = Failure("create_account", Message.bad_amount)
             /\ UNCHANGED <<library, accounts, account_counter, todo>>
        ELSE BankingSystem_create_account(holder_name, initial_amount)

\* main, choice 2: get_account, then deposit of what was typed
Bank_deposit(acc_num, amount) ==
    IF acc_num \notin DOMAIN accounts
    THEN /\ result' = Failure("deposit", Message.no_account)
         /\ UNCHANGED <<library, accounts, account_counter, todo>>
    ELSE LET r == BankAccount_deposit(accounts[acc_num], Float[amount], FALSE, now)
         IN  /\ accounts' = [accounts EXCEPT ![acc_num] = r.account]
             /\ result' = IF r.ok THEN Success("deposit", acc_num, r.msg, NoInfo)
                                  ELSE Failure("deposit", r.msg)
             /\ UNCHANGED <<library, account_counter, todo>>

\* main, choice 3: get_account, then withdraw of what was typed
Bank_withdraw(acc_num, amount) ==
    IF acc_num \notin DOMAIN accounts
    THEN /\ result' = Failure("withdraw", Message.no_account)
         /\ UNCHANGED <<library, accounts, account_counter, todo>>
    ELSE LET r == BankAccount_withdraw(accounts[acc_num], Float[amount], now)
         IN  /\ accounts' = [accounts EXCEPT ![acc_num] = r.account]
             /\ result' = IF r.ok THEN Success("withdraw", acc_num, r.msg, NoInfo)
                                  ELSE Failure("withdraw", r.msg)
             /\ UNCHANGED <<library, account_counter, todo>>

AmountInputs == {"-1", "0", "1", "2", "nan", "inf", "x"}
InitialInputs == {"", "-1", "1", "nan", "x"}
AccountInputs == FirstAccountNumber..(FirstAccountNumber + MaxAccounts)

\* the bank after the step holds at most so many accounts and transactions of
\* an account
WithinBank(maxAccounts, maxTransactions) ==
    /\ Cardinality(DOMAIN accounts') <= maxAccounts
    /\ \A a \in DOMAIN accounts' : Len(accounts'[a].transaction_history) <= maxTransactions

CreateAccount == \E holder_name \in NameInputs, initial \in InitialInputs :
                    /\ Bank_create_account(holder_name, initial)
                    /\ WithinBank(MaxAccounts, MaxTransactions)

Deposit == \E acc_num \in AccountInputs, amount \in AmountInputs :
              /\ Bank_deposit(acc_num, amount)
              /\ WithinBank(MaxAccounts, MaxTransactions)

Withdraw == \E acc_num \in AccountInputs, amount \in AmountInputs :
               /\ Bank_withdraw(acc_num, amount)
               /\ WithinBank(MaxAccounts, MaxTransactions)

NextBank == CreateAccount \/ Deposit \/ Withdraw

SpecBank == Init /\ [][NextBank]_vars

-----------------------------------------------------------------------------
(* Smart Task Manager ("To Do App.py" inside src/Bankingstr.py) *)

MaxTasks == 2        \* tasks in the list
MaxTaskId == 3       \* the largest task_id handed out
MaxTodoTicks == 3    \* ticks the clock runs for

\* None where a datetime may stand: a datetime is never falsy
NoDatetime == -1

\* null in the JSON file
Null == <<>>

High == <<"H", "i", "g", "h">>
Medium == <<"M", "e", "d", "i", "u", "m">>
Low == <<"L", "o", "w">>

\* datetime.isoformat(): the date and the time of day, written apart
IsoFormat(t) == <<t \div DayTicks, t % DayTicks>>

\* datetime.fromisoformat()
FromIsoFormat(s) == s[1] * DayTicks + s[2]

\* Task.__init__ with the class counter at counter: the task and the counter afterwards
Task_init(title, description, priority, task_id, counter, t) ==
    [task |-> [task_id |-> IF task_id # None THEN task_id ELSE counter,
               title |-> title, description |-> description, priority |-> priority,
               completed |-> FALSE, created_at |-> t, completed_at |-> NoDatetime],
     counter |-> IF task_id = None THEN counter + 1 ELSE counter]

\* Task.mark_completed
Task_mark_completed(task, t) == [task EXCEPT !.completed = TRUE, !.completed_at = t]

\* Task.mark_pending
Task_mark_pending(task) == [task EXCEPT !.completed = FALSE, !.completed_at = NoDatetime]

\* Task.to_dict
Task_to_dict(task) ==
    [task_id |-> task.task_id, title |-> task.title, description |-> task.description,
     priority |-> task.priority, completed |-> task.completed,
     created_at |-> IsoFormat(task.created_at),
     completed_at |-> IF task.completed_at # NoDatetime
                      THEN IsoFormat(task.completed_at) ELSE Null]

\* the created_at of the file is not read: the task keeps the time of loading
Task_from_dict_KeepCreated(data, counter, t) ==
    LET made == Task_init(data.title, data.description, data.priority, data.task_id,
                          counter, t)
        task == [made.task EXCEPT
                   !.completed = data.completed,
                   !.completed_at = IF data.completed_at # Null
                                    THEN FromIsoFormat(data.completed_at) ELSE @]
    IN  [task |-> task,
         counter |-> IF task.task_id >= made.counter THEN task.task_id + 1 ELSE made.counter]

\* Task.from_dict, called at clock reading t with the class counter at counter
Task_from_dict(data, counter, t) ==
    LET made == Task_init(data.title, data.description, data.priority, data.task_id,
                          counter, t)
        task == [made.task EXCEPT
                   !.completed = data.completed,
                   !.created_at = FromIsoFormat(data.created_at),
                   !.completed_at = IF data.completed_at # Null
                                    THEN FromIsoFormat(data.completed_at) ELSE @]
    IN  [task |-> task,
         counter |-> IF task.task_id >= made.counter THEN task.task_id + 1 ELSE made.counter]

\* TaskManager._find_task: the position of the first task with the identifier, 0 for None
TaskManager_find_task(task_id) ==
    IF \E i \in 1..Len(tasks) : tasks[i].task_id = task_id
    THEN CHOOSE i \in 1..Len(tasks) :
            /\ tasks[i].task_id = task_id
            /\ \A j \in 1..(i - 1) : tasks[j].task_id # task_id
    ELSE 0

\* what save_tasks writes for a list of tasks
TaskManager_save_tasks(list) ==
    [exists |-> TRUE, tasks |-> [i \in 1..Len(list) |-> Task_to_dict(list[i])]]

\* [Task.from_dict(task_data) for task_data in data['tasks']]: the list and
\* the class counter afterwards
RECURSIVE FromDicts(_, _, _)
FromDicts(data, counter, t) ==
    IF data = <<>> THEN [tasks |-> <<>>, counter |-> counter]
    ELSE LET front == FromDicts(SubSeq(data, 1, Len(data) - 1), counter, t)
             last == Task_from_dict(data[Len(data)], front.counter, t)
         IN  [tasks |-> Append(front.tasks, last.task), counter |-> last.counter]

\* TaskManager.load_tasks with the class counter at counter
TaskManager_load_tasks(list, counter, t) ==
    IF save_file.exists
    THEN FromDicts(save_file.tasks, counter, t)
    ELSE [tasks |-> list, counter |-> counter]

\* the identifiers of a list of tasks
TaskIds(list) == {list[i].task_id : i \in 1..Len(list)}

\* the task_id_counter is advanced before the title is checked
TaskManager_add_task_EagerId(title, description, priority) ==
    LET stripped == Strip(title)
        titled == Title(Strip(priority))
        p == IF titled \in {High, Medium, Low} THEN titled ELSE Medium
        made == Task_init(stripped, Strip(description), p, None, task_id_counter, now)
    IN  IF stripped = <<>>
        THEN /\ result' = Failure("add_task", Message.bad_title)
             /\ task_id_counter' = made.counter
             /\ UNCHANGED <<library, bank, tasks, save_file, task_ids>>
        ELSE /\ tasks' = Append(tasks, made.task)
             /\ task_id_counter' = made.counter
             /\ save_file' = TaskManager_save_tasks(tasks')
             /\ task_ids' = task_ids \cup {made.task.task_id}
             /\ result' = Success("add_task", made.task.task_id, Message.none, NoInfo)
             /\ UNCHANGED <<library, bank>>

\* TaskManager.add_task
TaskManager_add_task(title, description, priority) ==
    LET stripped == Strip(title)
        titled == Title(Strip(priority))
        p == IF titled \in {High, Medium, Low} THEN titled ELSE Medium
    IN  IF stripped = <<>>
        THEN /\ result' = Failure("add_task", Message.bad_title)
             /\ UNCHANGED <<library, bank, todo>>
        ELSE LET made == Task_init(stripped, Strip(description), p, None,
                                   task_id_counter, now)
             IN  /\ tasks' = Append(tasks, made.task)
                 /\ task_id_counter' = made.counter
                 /\ save_file' = TaskManager_save_tasks(tasks')
                 /\ task_ids' = task_ids \cup {made.task.task_id}
                 /\ result' = Success("add_task", made.task.task_id, Message.none, NoInfo)
                 /\ UNCHANGED <<library, bank>>

\* TaskManager.mark_completed
TaskManager_mark_completed(task_id) ==
    LET i == TaskManager_find_task(task_id)
    IN  IF i = 0
        THEN /\ result' = Failure("mark_completed", Message.no_task)
             /\ UNCHANGED <<library, bank, todo>>
        ELSE IF tasks[i].completed
        THEN /\ result' = Failure("mark_completed", Message.already_completed)
             /\ UNCHANGED <<library, bank, todo>>
        ELSE /\ tasks' = [tasks EXCEPT ![i] = Task_mark_completed(@, now)]
             /\ save_file' = TaskManager_save_tasks(tasks')
             /\ result' = Success("mark_completed", task_id, Message.none, NoInfo)
             /\ UNCHANGED <<library, bank, task_id_counter, task_ids>>

\* TaskManager.mark_pending
TaskManager_mark_pending(task_id) ==
    LET i == TaskManager_find_task(task_id)
    IN  IF i = 0
        THEN /\ result' = Failure("mark_pending", Message.no_task)
             /\ UNCHANGED <<library, bank, todo>>
        ELSE IF ~tasks[i].completed
        THEN /\ result' = Failure("mark_pending", Message.already_pending)
             /\ UNCHANGED <<library, bank, todo>>
        ELSE /\ tasks' = [tasks EXCEPT ![i] = Task_mark_pending(@)]
             /\ save_file' = TaskManager_save_tasks(tasks')
             /\ result' = Success("mark_pending", task_id, Message.none, NoInfo)
             /\ UNCHANGED <<library, bank, task_id_counter, task_ids>>

\* TaskManager.delete_task, confirm what the user answers to the question
TaskManager_delete_task(task_id, confirm) ==
    LET i == TaskManager_find_task(task_id)
    IN  IF i = 0
        THEN /\ result' = Failure("delete_task", Message.no_task)
             /\ UNCHANGED <<library, bank, todo>>
        ELSE IF confirm = "yes"
        THEN /\ tasks' = [j \in 1..(Len(tasks) - 1) |->
                            IF j < i THEN tasks[j] ELSE tasks[j + 1]]
             /\ save_file' = TaskManager_save_tasks(tasks')
             /\ result' = Success("delete_task", task_id, Message.none, NoInfo)
             /\ UNCHANGED <<library, bank, task_id_counter, task_ids>>
        ELSE /\ result' = Failure("delete_task", Message.cancelled)
             /\ UNCHANGED <<library, bank, todo>>

\* the program is started again: the class counter is back at its first value
\* and main builds a TaskManager, whose __init__ calls load_tasks
TaskManager_init ==
    LET loaded == TaskManager_load_tasks(<<>>, FirstTaskId, now)
    IN  /\ tasks' = loaded.tasks
        /\ task_id_counter' = loaded.counter
        /\ task_ids' = task_ids \cup TaskIds(loaded.tasks)
        /\ result' = [NoResult EXCEPT !.op = "load_tasks", !.ret = Len(loaded.tasks)]
        /\ UNCHANGED <<library, bank, save_file>>

TaskTitleInputs == {<<" ">>, <<" ", "a">>}
DescriptionInputs == {<<"b", " ">>}
PriorityInputs == {<<"l", "o", "w">>, <<"x">>}
TaskIdInputs == FirstTaskId..MaxTaskId
ConfirmInputs == {"yes", "no"}

\* the manager after the step holds at most so many tasks and no task_id above maxTaskId
WithinTodo(maxTasks, maxTaskId) ==
    /\ Len(tasks') <= maxTasks
    /\ task_id_counter' <= maxTaskId + 1

AddTask == \E title \in TaskTitleInputs, description \in DescriptionInputs,
              priority \in PriorityInputs :
              /\ TaskManager_add_task(title, description, priority)
              /\ WithinTodo(MaxTasks, MaxTaskId)

MarkCompleted == \E task_id \in TaskIdInputs : TaskManager_mark_completed(task_id)

MarkPending == \E task_id \in TaskIdInputs : TaskManager_mark_pending(task_id)

DeleteTask == \E task_id \in TaskIdInputs, confirm \in ConfirmInputs :
                 TaskManager_delete_task(task_id, confirm)

Restart == TaskManager_init

ClockTickTodo == \E d \in {1, DayTicks} : now + d <= MaxTodoTicks /\ Tick(d)

NextTodo ==
    \/ AddTask \/ MarkCompleted \/ MarkPending \/ DeleteTask
    \/ Restart \/ ClockTickTodo

SpecTodo == Init /\ [][NextTodo]_vars

\* one run of the program, from its first start to its exit
NextOneRun == AddTask \/ MarkCompleted \/ MarkPending \/ DeleteTask \/ ClockTickTodo

SpecOneRun == Init /\ [][NextOneRun]_vars

-----------------------------------------------------------------------------
(* Properties of the ledger *)

BookIds == DOMAIN books

MemberIds == DOMAIN members

ActiveLoans(b) == Cardinality(DOMAIN books[b].issued_to)

HasLoan(b, m) == m \in DOMAIN books[b].issued_to

Borrowed(m, b) == Contains(members[m].borrowed_books, b)

\* C1: every book has available_copies = total_copies - number of loan records,
\* after any sequence of add_book, issue_book and return_book calls
C1_CopyConservation ==
    \A b \in BookIds :
        books[b].available_copies = books[b].total_copies - ActiveLoans(b)

\* a return has just succeeded on a ledger where an entry that was merged to two
\* copies still has one of them on loan
C1_Witness ==
    /\ result.op = "return_book" /\ result.ok
    /\ \E b \in BookIds : books[b].total_copies = 2 /\ ActiveLoans(b) = 1

\* C2: a book identifier is in a member's borrowed_books exactly when the book
\* has a loan record keyed by that member
C2_BorrowedIffLoan ==
    \A m \in MemberIds : \A b \in BookIds : Borrowed(m, b) <=> HasLoan(b, m)

\* one member holds a loan on one book and not on the other, a second member holds none
C2_Witness ==
    \E m1, m2 \in MemberIds : \E b1, b2 \in BookIds :
        /\ m1 # m2 /\ b1 # b2
        /\ HasLoan(b1, m1) /\ ~HasLoan(b2, m1)
        /\ ~HasLoan(b1, m2) /\ ~HasLoan(b2, m2)
        /\ result.op = "issue_book" /\ result.ok

\* C3: every key of a loan record is a registered member, and every identifier in
\* a borrowed list is a book of the catalog that holds a loan record for the member
C3_ReferentialIntegrity ==
    /\ \A b \in BookIds : DOMAIN books[b].issued_to \subseteq MemberIds
    /\ \A m \in MemberIds : \A i \in 1..Len(members[m].borrowed_books) :
          LET b == members[m].borrowed_books[i]
          IN  b \in BookIds /\ HasLoan(b, m)

\* a member who returned one of two borrowed books still lists the other
C3_Witness ==
    /\ result.op = "return_book" /\ result.ok
    /\ \E m \in MemberIds : Len(members[m].borrowed_books) = 1

\* C4: every book has total_copies >= 1 and 0 <= available_copies <= total_copies
C4_CopyBounds ==
    \A b \in BookIds :
        /\ books[b].total_copies >= 1
        /\ 0 <= books[b].available_copies
        /\ books[b].available_copies <= books[b].total_copies

\* an issue was refused on a ledger holding a book with no copy left and a book
\* with all its copies left
C4_Witness ==
    /\ result.op = "issue_book" /\ ~result.ok
    /\ \E b1, b2 \in BookIds :
          /\ books[b1].available_copies = 0
          /\ books[b2].available_copies = books[b2].total_copies

\* C5: issue_book on an existing book with available_copies = 0 fails with
\* "No copies available" for every registered member, a holder of a loan included
C5_NoCopiesForAnyMember ==
    [][\A b \in BookIdInputs, m \in MemberIdInputs :
          (/\ b \in BookIds /\ m \in MemberIds
           /\ books[b].available_copies = 0
           /\ Library_issue_book(b, m))
          => (result'.op = "issue_book" /\ ~result'.ok /\ result'.msg = Message.no_copies)
      ]_vars

\* the only registered member was refused for want of copies, and holds a loan
\* on every book that has no copy left
C5_Witness ==
    /\ result.op = "issue_book" /\ result.msg = Message.no_copies
    /\ Cardinality(MemberIds) = 1
    /\ \A b \in BookIds : \A m \in MemberIds :
          books[b].available_copies = 0 => HasLoan(b, m)

\* C6 as stated: a second issue_book of a pair that holds a loan fails with
\* "Member already has this book", whatever the book's copy count
C6_SecondIssueAlreadyBorrowed ==
    [][\A b \in BookIdInputs, m \in MemberIdInputs :
          (/\ b \in BookIds /\ m \in MemberIds
           /\ HasLoan(b, m)
           /\ Library_issue_book(b, m))
          => (~result'.ok /\ result'.msg = Message.already)
      ]_vars

\* C6 amended: a second issue_book of a pair that holds a loan fails, with
\* "Member already has this book" when the book has a copy left and with
\* "No copies available" when it has none
C6_SecondIssueFails ==
    [][\A b \in BookIdInputs, m \in MemberIdInputs :
          (/\ b \in BookIds /\ m \in MemberIds
           /\ HasLoan(b, m)
           /\ Library_issue_book(b, m))
          => (/\ ~result'.ok
              /\ result'.msg = IF books[b].available_copies > 0
                               THEN Message.already ELSE Message.no_copies)
      ]_vars

\* a member holding a loan on a book with a copy left was refused a second one
C6_Witness ==
    /\ result.op = "issue_book" /\ result.msg = Message.already
    /\ \E b \in BookIds : \E m \in MemberIds :
          HasLoan(b, m) /\ books[b].available_copies > 0

\* C7: return_book of an existing book by a registered member without a loan on
\* it fails with "Book not issued to this member" and leaves the book as it was
C7_ReturnWithoutLoan ==
    [][\A b \in BookIdInputs, m \in MemberIdInputs :
          (/\ b \in BookIds /\ m \in MemberIds
           /\ ~HasLoan(b, m)
           /\ Library_return_book(b, m))
          => (/\ result'.op = "return_book" /\ ~result'.ok
              /\ result'.msg = Message.not_issued
              /\ books'[b].total_copies = books[b].total_copies
              /\ books'[b].available_copies = books[b].available_copies
              /\ books'[b].issued_to = books[b].issued_to)
      ]_vars

\* a return was refused on a ledger where some book is on loan to another member
C7_Witness ==
    /\ result.op = "return_book" /\ result.msg = Message.not_issued
    /\ \E b \in BookIds : ActiveLoans(b) = 1 /\ books[b].available_copies >= 1
    /\ Cardinality(MemberIds) = 2

\* C8: right after a successful issue_book(b, m) the member lists b once, right
\* after a successful return_book(b, m) the member lists b zero times, and no
\* borrowed list ever holds an identifier twice
C8_BorrowedMultiplicity ==
    [][/\ \A b \in BookIdInputs, m \in MemberIdInputs :
            /\ (Library_issue_book(b, m) /\ result'.ok)
                  => Count(members'[m].borrowed_books, b) = 1
            /\ (Library_return_book(b, m) /\ result'.ok)
                  => Count(members'[m].borrowed_books, b) = 0
       /\ \A m \in DOMAIN members' : \A b \in DOMAIN books' :
            Count(members'[m].borrowed_books, b) <= 1
      ]_vars

\* a member who borrowed two books returned the first of them and borrowed it again
C8_Witness ==
    /\ result.op = "issue_book" /\ result.ok
    /\ \E m \in MemberIds : \E b1, b2 \in BookIds :
          b1 < b2 /\ members[m].borrowed_books = <<b2, b1>>

IssueApplied(b, m) ==
    /\ result'.ok
    /\ b \in BookIds /\ m \in MemberIds
    /\ ~HasLoan(b, m)
    /\ m \in DOMAIN books'[b].issued_to
    /\ books'[b].available_copies = books[b].available_copies - 1
    /\ members'[m].borrowed_books = Append(members[m].borrowed_books, b)

IssueNotApplied ==
    /\ ~result'.ok
    /\ UNCHANGED <<books, members>>

\* C9: every issue_book call either adds the loan record, lowers
\* available_copies by one and appends the book to the member's list, or
\* changes none of the three
C9_IssueAllOrNothing ==
    [][\A b \in BookIdInputs, m \in MemberIdInputs :
          Library_issue_book(b, m) => (IssueApplied(b, m) \/ IssueNotApplied)
      ]_vars

\* both members hold a loan on the same book, issued at different clock readings
C9_Witness ==
    /\ result.op = "issue_book" /\ result.ok
    /\ \E b \in BookIds : \E m1, m2 \in MemberIds :
          /\ HasLoan(b, m1) /\ HasLoan(b, m2)
          /\ books[b].issued_to[m1].issue_date < books[b].issued_to[m2].issue_date

LedgerCall == AddBook \/ RegisterMember \/ IssueBook \/ ReturnBook

\* C10: a failed add_book, register_member, issue_book or return_book leaves
\* the books, the members and the ISBN index as they were
C10_FailureChangesNothing ==
    [][(LedgerCall /\ ~result'.ok) => UNCHANGED ledger]_vars

\* an add_book was refused for its copy count on a ledger with books, members,
\* a loan and a fine
C10_Witness ==
    /\ result.op = "add_book" /\ result.msg = Message.bad_copies
    /\ \E b \in BookIds : ActiveLoans(b) > 0
    /\ \E m \in MemberIds : members[m].total_fines > 0

\* C11: add_book with an ISBN that is already indexed creates no book, returns
\* the identifier of the existing entry and raises its total_copies and
\* available_copies by the given copies; copies 2 and then 3 on a new ISBN give
\* one entry with total 5 and the same identifier from both calls
C11_MergeAddsCopies ==
    [][\A title \in CatalogTitleInputs, author \in AuthorInputs, isbn \in IsbnInputs,
          copies \in CatalogCopiesInputs :
          (/\ copies > 0
           /\ Strip(isbn) \in DOMAIN isbn_index
           /\ Library_add_book(title, author, isbn, copies))
          => LET b == isbn_index[Strip(isbn)]
             IN  /\ result'.op = "add_book" /\ result'.ok /\ result'.ret = b
                 /\ DOMAIN books' = DOMAIN books
                 /\ isbn_index' = isbn_index
                 /\ book_id_counter' = book_id_counter
                 /\ books'[b].total_copies = books[b].total_copies + copies
                 /\ books'[b].available_copies = books[b].available_copies + copies
                 /\ (/\ copies = 3
                     /\ result.op = "add_book" /\ result.ok /\ result.ret = b
                     /\ books[b].total_copies = 2
                     /\ Cardinality(DOMAIN books) = 1)
                    => (/\ books'[b].total_copies = 5
                        /\ result'.ret = result.ret
                        /\ Cardinality(DOMAIN books') = 1)
      ]_vars

\* the only entry of the catalog holds five copies after a merge that returned
\* its identifier, one of them on loan
C11_Witness ==
    /\ result.op = "add_book" /\ result.ok
    /\ Cardinality(BookIds) = 1
    /\ \E b \in BookIds :
          /\ result.ret = b
          /\ books[b].total_copies = 5
          /\ books[b].available_copies = 4

\* C12: isbn_index maps each ISBN to a book of the catalog whose isbn is that
\* key, every book has exactly one index entry, and no two books share an ISBN
C12_IsbnIndexConsistent ==
    /\ \A i \in DOMAIN isbn_index :
          isbn_index[i] \in BookIds /\ books[isbn_index[i]].isbn = i
    /\ \A b \in BookIds :
          Cardinality({i \in DOMAIN isbn_index : isbn_index[i] = b}) = 1
    /\ \A b1, b2 \in BookIds : b1 # b2 => books[b1].isbn # books[b2].isbn

\* two entries under two ISBNs, one of them merged since and partly on loan
C12_Witness ==
    /\ result.op = "add_book" /\ result.ok
    /\ Cardinality(DOMAIN isbn_index) = 2
    /\ \E b \in BookIds : books[b].total_copies = 3 /\ books[b].available_copies = 2

\* C13: add_book with copies <= 0 fails with "Number of copies must be
\* positive" for a new ISBN and for an indexed one: it returns no identifier,
\* creates no book and no index entry and changes no copy count
C13_BadCopiesRejected ==
    [][\A title \in CatalogTitleInputs, author \in AuthorInputs, isbn \in IsbnInputs,
          copies \in CatalogCopiesInputs :
          (copies <= 0 /\ Library_add_book(title, author, isbn, copies))
          => (/\ result'.op = "add_book" /\ ~result'.ok
              /\ result'.msg = Message.bad_copies
              /\ result'.ret = None
              /\ books' = books
              /\ isbn_index' = isbn_index
              /\ book_id_counter' = book_id_counter)
      ]_vars

\* an add_book was refused on a catalog that indexes one of the two ISBNs, so
\* that the inputs hold an indexed and a new ISBN
C13_Witness ==
    /\ result.op = "add_book" /\ result.msg = Message.bad_copies
    /\ Cardinality(DOMAIN isbn_index) = 1
    /\ \E b \in BookIds : ActiveLoans(b) = 1

\* a string that strip() leaves empty: it holds nothing but spaces
Blank(s) == \A i \in 1..Len(s) : s[i] = Space

\* C14: register_member fails with "Name and email cannot be empty" whenever the
\* name or the email is empty after normalization and then adds no member; every
\* member has a non-empty name and a non-empty email without upper-case letters
C14_EmptyMemberDataRejected ==
    [][/\ \A name \in NameInputs, email \in EmailInputs :
            ((Blank(name) \/ Blank(email)) /\ Library_register_member(name, email))
            => (/\ result'.op = "register_member" /\ ~result'.ok
                /\ result'.msg = Message.bad_member
                /\ members' = members
                /\ member_id_counter' = member_id_counter)
       /\ \A m \in DOMAIN members' :
            /\ members'[m].name # <<>>
            /\ members'[m].email # <<>>
            /\ \A i \in 1..Len(members'[m].email) : ~IsUpper(members'[m].email[i])
      ]_vars

\* a registration was refused after another one had succeeded
C14_Witness ==
    /\ result.op = "register_member" /\ result.msg = Message.bad_member
    /\ Cardinality(MemberIds) = 1

\* the outcome of a call with an identifier that is not in the ledger
NotFound(op, msg) ==
    /\ result'.op = op /\ ~result'.ok /\ result'.msg = msg
    /\ UNCHANGED <<books, members>>

\* C15: issue_book and return_book fail with book-not-found when the book
\* identifier is not in books, and with member-not-found when the book exists
\* and the member identifier is not in members; no book or member is touched
C15_NotFound ==
    [][\A b \in BookIdInputs, m \in MemberIdInputs :
          /\ (b \notin BookIds /\ Library_issue_book(b, m))
                => NotFound("issue_book", Message.no_book)
          /\ (b \in BookIds /\ m \notin MemberIds /\ Library_issue_book(b, m))
                => NotFound("issue_book", Message.no_member)
          /\ (b \notin BookIds /\ Library_return_book(b, m))
                => NotFound("return_book", Message.no_book)
          /\ (b \in BookIds /\ m \notin MemberIds /\ Library_return_book(b, m))
                => NotFound("return_book", Message.no_member)
      ]_vars

\* a return named a member that is not registered, for a book that is on loan
C15_Witness ==
    /\ result.op = "return_book" /\ result.msg = Message.no_member
    /\ \E b \in BookIds : ActiveLoans(b) = 1

\* C16: a loan record has due_date = issue_date + 14 days and member_id equal
\* to its key, its issue_date is the clock reading of the issue, and it stays as
\* it is until the return removes it
C16_LoanRecord ==
    [][\A b \in DOMAIN books' : \A m \in DOMAIN books'[b].issued_to :
          LET rec == books'[b].issued_to[m]
          IN  /\ rec.member_id = m
              /\ rec.due_date = rec.issue_date + 14 * DayTicks
              /\ IF b \in BookIds /\ HasLoan(b, m)
                 THEN rec = books[b].issued_to[m]
                 ELSE rec.issue_date = now
      ]_vars

\* a loan issued after the clock had moved is still on record a day later
C16_Witness ==
    \E b \in BookIds : \E m \in MemberIds :
        /\ HasLoan(b, m)
        /\ books[b].issued_to[m].issue_date > 0
        /\ now >= books[b].issued_to[m].issue_date + DayTicks

\* the step is a successful return_book(b, m) of a loan
ReturnsLoan(b, m) ==
    /\ b \in BookIds /\ m \in MemberIds
    /\ HasLoan(b, m)
    /\ Library_return_book(b, m)

\* C17: a return at now = due_date reports is_overdue = false, overdue_days = 0
\* and fine = 0; a return at now > due_date reports is_overdue = true,
\* overdue_days the whole days in now - due_date (0 within the first day) and
\* fine = overdue_days x 1
C17_StrictOverdue ==
    [][\A b \in BookIdInputs, m \in MemberIdInputs :
          ReturnsLoan(b, m)
          => LET due == books[b].issued_to[m].due_date
                 info == result'.info
             IN  /\ result'.ok
                 /\ (now = due) => (/\ ~info.is_overdue
                                    /\ info.overdue_days = 0
                                    /\ info.fine = 0)
                 /\ (now > due) => (/\ info.is_overdue
                                    /\ info.overdue_days >= 0
                                    /\ info.overdue_days * DayTicks <= now - due
                                    /\ now - due < (info.overdue_days + 1) * DayTicks
                                    /\ (now - due < DayTicks) => (info.overdue_days = 0)
                                    /\ info.fine = info.overdue_days * 1)
      ]_vars

\* a return less than a day after the due date: overdue, with no whole day to fine
C17_Witness ==
    /\ result.op = "return_book" /\ result.ok
    /\ result.info.is_overdue
    /\ result.info.overdue_days = 0
    /\ result.info.fine = 0

\* C18: a loan issued at t0 and returned at t0 + 14 days reports is_overdue =
\* false and fine = 0; returned at t0 + 20 days it reports overdue_days = 6 and
\* fine = 6
C18_RoundTrip ==
    [][\A b \in BookIdInputs, m \in MemberIdInputs :
          ReturnsLoan(b, m)
          => LET t0 == books[b].issued_to[m].issue_date
                 info == result'.info
             IN  /\ result'.ok
                 /\ (now = t0 + 14 * DayTicks) => (~info.is_overdue /\ info.fine = 0)
                 /\ (now = t0 + 20 * DayTicks) => (info.overdue_days = 6 /\ info.fine = 6)
      ]_vars

\* a return twenty days after the issue
C18_Witness ==
    /\ result.op = "return_book" /\ result.ok
    /\ result.info.days_borrowed = 20
    /\ result.info.overdue_days = 6
    /\ now = 20 * DayTicks

\* C19: a successful return at now >= issue_date reports days_borrowed = the
\* whole days in now - issue_date, is_overdue = (now > due_date), overdue_days =
\* the whole days in now - due_date when overdue and 0 otherwise, and fine =
\* overdue_days x 1: the outcome is fixed by the removed record and now
C19_ReturnOutcome ==
    [][\A b \in BookIdInputs, m \in MemberIdInputs :
          (ReturnsLoan(b, m) /\ now >= books[b].issued_to[m].issue_date)
          => LET rec == books[b].issued_to[m]
                 info == result'.info
             IN  /\ result'.ok
                 /\ info.days_borrowed >= 0
                 /\ info.days_borrowed * DayTicks <= now - rec.issue_date
                 /\ now - rec.issue_date < (info.days_borrowed + 1) * DayTicks
                 /\ info.is_overdue <=> (now > rec.due_date)
                 /\ info.is_overdue
                       => (/\ info.overdue_days * DayTicks <= now - rec.due_date
                           /\ now - rec.due_date < (info.overdue_days + 1) * DayTicks)
                 /\ ~info.is_overdue => (info.overdue_days = 0)
                 /\ info.fine = info.overdue_days * 1
      ]_vars

\* a return part of a day past fifteen days: one whole day overdue
C19_Witness ==
    /\ result.op = "return_book" /\ result.ok
    /\ result.info.days_borrowed = 15
    /\ result.info.overdue_days = 1
    /\ result.info.fine = 1
    /\ now = 15 * DayTicks + 1

\* the fine the step charges member m: the fine an overdue return_book of m reports
FineCharged(m) ==
    IF \E b \in BookIdInputs :
          ReturnsLoan(b, m) /\ result'.ok /\ result'.info.is_overdue
    THEN result'.info.fine
    ELSE 0

\* C20: a successful return_book(b, m) raises m's total_fines by the fine it
\* reports when is_overdue and leaves it when not; no other call and no failed
\* return changes a member's total_fines, and a new member starts at 0, so that
\* total_fines is the sum of the fines of the member's overdue returns
C20_FineAccrual ==
    [][/\ \A m \in MemberIds :
            members'[m].total_fines = members[m].total_fines + FineCharged(m)
       /\ \A m \in DOMAIN members' \ MemberIds : members'[m].total_fines = 0
      ]_vars

\* a member was fined for a second overdue return while the other member,
\* fined once, was not charged
C20_Witness ==
    /\ result.op = "return_book" /\ result.ok /\ result.info.fine = 1
    /\ \E m1, m2 \in MemberIds :
          members[m1].total_fines = 2 /\ members[m2].total_fines = 1

\* C21: every fine an overdue return hands to add_fine is non-negative, and
\* every member's total_fines is non-negative and never lower after a step
\* than before it
C21_FinesNeverDecrease ==
    [][/\ \A b \in BookIdInputs, m \in MemberIdInputs :
            (ReturnsLoan(b, m) /\ result'.info.is_overdue) => result'.info.fine >= 0
       /\ \A m \in MemberIds : members'[m].total_fines >= members[m].total_fines
       /\ \A m \in DOMAIN members' : members'[m].total_fines >= 0
      ]_vars

\* a member who was fined has borrowed again and keeps the fine
C21_Witness ==
    /\ result.op = "issue_book" /\ result.ok
    /\ \E m \in MemberIds :
          members[m].total_fines > 0 /\ Len(members[m].borrowed_books) > 0

\* every identifier handed out so far lies below the class counter, and every
\* entry is stored under its own identifier
BelowCounter ==
    /\ \A b \in BookIds : books[b].book_id = b /\ b < book_id_counter
    /\ \A m \in MemberIds : members[m].member_id = m /\ m < member_id_counter

\* the entries a step creates get the identifier the call returns, which is
\* above every identifier handed out before
FreshIds ==
    /\ \A b \in DOMAIN books' \ BookIds :
          /\ result'.ret = b /\ books'[b].book_id = b
          /\ b >= book_id_counter /\ b < book_id_counter'
          /\ \A o \in BookIds : o < b
    /\ \A m \in DOMAIN members' \ MemberIds :
          /\ result'.ret = m /\ members'[m].member_id = m
          /\ m >= member_id_counter /\ m < member_id_counter'
          /\ \A o \in MemberIds : o < m

\* C22: book and member identifiers are handed out in strictly increasing
\* order of creation, are pairwise distinct and never handed out again; an
\* add_book that merges and an add_book or register_member that fails take
\* no identifier
C22_IdentifierAllocation ==
    [][/\ FreshIds /\ BelowCounter'
       /\ book_id_counter' >= book_id_counter
       /\ member_id_counter' >= member_id_counter
       /\ \A title \in TitleInputs, author \in AuthorInputs, isbn \in IsbnInputs,
             copies \in CopiesInputs :
             (/\ copies <= 0 \/ Strip(isbn) \in DOMAIN isbn_index
              /\ Library_add_book(title, author, isbn, copies))
             => (book_id_counter' = book_id_counter /\ DOMAIN books' = BookIds)
       /\ \A name \in NameInputs, email \in EmailInputs :
             (Library_register_member(name, email) /\ ~result'.ok)
             => (member_id_counter' = member_id_counter /\ DOMAIN members' = MemberIds)
      ]_vars

\* a second book was created on a ledger with two members, after the first
\* entry had reached two copies
C22_Witness ==
    /\ result.op = "add_book" /\ result.ok /\ result.ret = FirstBookId + 1
    /\ BookIds = {FirstBookId, FirstBookId + 1}
    /\ MemberIds = {FirstMemberId, FirstMemberId + 1}
    /\ books[FirstBookId].total_copies = 2
    /\ books[FirstBookId + 1].total_copies = 1

\* the pair (b, m) is in its borrowed state: book b holds a loan record for m
PairBorrowed(b, m) == b \in BookIds /\ HasLoan(b, m)

\* a call of issue_book or return_book on a pair other than (b, m)
OtherPairCall(b, m) ==
    \E b2 \in BookIdInputs, m2 \in MemberIdInputs :
        /\ <<b2, m2>> # <<b, m>>
        /\ Library_issue_book(b2, m2) \/ Library_return_book(b2, m2)

\* C23: a pair (book, member) goes from not-borrowed to borrowed only by a
\* successful issue_book of that pair and from borrowed to not-borrowed only by
\* a successful return_book of that pair; a successful issue starts from
\* not-borrowed and a successful return from borrowed; a call on another pair
\* leaves the pair as it is; and after a return the book has a copy available,
\* with which an issue_book of the not-borrowed pair succeeds
C23_PairStateMachine ==
    [][\A b \in BookIdInputs, m \in MemberIdInputs :
          /\ (~PairBorrowed(b, m) /\ PairBorrowed(b, m)')
                => (Library_issue_book(b, m) /\ result'.ok)
          /\ (PairBorrowed(b, m) /\ ~PairBorrowed(b, m)')
                => (Library_return_book(b, m) /\ result'.ok)
          /\ (Library_issue_book(b, m) /\ result'.ok)
                => (~PairBorrowed(b, m) /\ PairBorrowed(b, m)')
          /\ (Library_return_book(b, m) /\ result'.ok)
                => (/\ PairBorrowed(b, m) /\ ~PairBorrowed(b, m)'
                    /\ books'[b].available_copies > 0)
          /\ OtherPairCall(b, m) => (PairBorrowed(b, m)' <=> PairBorrowed(b, m))
          /\ (/\ b \in BookIds /\ m \in MemberIds
              /\ ~HasLoan(b, m) /\ books[b].available_copies > 0
              /\ Library_issue_book(b, m))
                => (result'.ok /\ PairBorrowed(b, m)')
      ]_vars

\* the only book is on loan again to a member who was fined for returning it late
C23_Witness ==
    /\ result.op = "issue_book" /\ result.ok
    /\ Cardinality(BookIds) = 1
    /\ \E b \in BookIds : \E m \in MemberIds :
          HasLoan(b, m) /\ members[m].total_fines > 0

\* C24: view_available_books lists the books with available_copies > 0 and no
\* others, each once, by ascending title, and books of equal title by
\* ascending identifier
C24_AvailableListing ==
    result.op = "view_available_books"
    => LET rows == result.rows
       IN  /\ {rows[i].book_id : i \in 1..Len(rows)}
                 = {b \in BookIds : books[b].available_copies > 0}
           /\ \A i, j \in 1..Len(rows) :
                 i < j => /\ rows[i].book_id # rows[j].book_id
                          /\ ~StrLess(rows[j].title, rows[i].title)
                          /\ rows[i].title = rows[j].title
                                => rows[i].book_id < rows[j].book_id
           /\ \A i \in 1..Len(rows) : rows[i].title = books[rows[i].book_id].title

\* a listing of two books of the same title
C24_Witness ==
    /\ result.op = "view_available_books"
    /\ Len(result.rows) = 2
    /\ result.rows[1].title = result.rows[2].title

\* the active loans of the ledger, as pairs of a book and a member identifier
LoanPairs == {p \in BookIds \X MemberIds : HasLoan(p[1], p[2])}

\* C25: view_issued_books lists one row for every active loan record of every
\* book and no other row, by ascending due date, and rows of equal due date by
\* ascending book identifier
C25_IssuedListing ==
    result.op = "view_issued_books"
    => LET rows == result.rows
       IN  /\ {<<rows[i].book_id, rows[i].member_id>> : i \in 1..Len(rows)} = LoanPairs
           /\ Len(rows) = Cardinality(LoanPairs)
           /\ \A i \in 1..Len(rows) :
                 rows[i].due_date = books[rows[i].book_id].issued_to[rows[i].member_id].due_date
           /\ \A i, j \in 1..Len(rows) :
                 i < j => /\ rows[i].due_date <= rows[j].due_date
                          /\ rows[i].due_date = rows[j].due_date
                                => rows[i].book_id <= rows[j].book_id

\* a listing of three loans: two books due at the same reading, the first book
\* before the second, and a later loan of the first book behind both
C25_Witness ==
    /\ result.op = "view_issued_books"
    /\ Len(result.rows) = 3
    /\ result.rows[1].due_date = result.rows[2].due_date
    /\ result.rows[2].due_date < result.rows[3].due_date
    /\ result.rows[1].book_id < result.rows[2].book_id
    /\ result.rows[3].book_id = result.rows[1].book_id

\* C26: view_member_info raises nothing in any state the ledger reaches: for an
\* identifier that is not registered it reports member-not-found, and for a
\* member every identifier of borrowed_books is a book of the catalog whose
\* issued_to holds a loan record for the member, which the row printed for it shows
C26_MemberInfoNeverFaults ==
    [][\A m \in ViewMemberIdInputs :
          Library_view_member_info(m)
          => /\ result'.msg # Message.key_error
             /\ m \notin MemberIds
                   => (~result'.ok /\ result'.msg = Message.no_member)
             /\ m \in MemberIds
                   => LET borrowed == members[m].borrowed_books
                          rows == result'.rows
                      IN  /\ result'.ok
                          /\ Len(rows) = Len(borrowed)
                          /\ \A i \in 1..Len(borrowed) :
                                /\ borrowed[i] \in BookIds
                                /\ HasLoan(borrowed[i], m)
                                /\ rows[i].book_id = borrowed[i]
                                /\ rows[i].due_date = books[borrowed[i]].issued_to[m].due_date
      ]_vars

\* the information of a member who borrowed the second book before the first,
\* after a book was returned
C26_Witness ==
    /\ result.op = "view_member_info" /\ result.ok
    /\ Len(result.rows) = 2
    /\ result.rows[1].book_id > result.rows[2].book_id
    /\ \E m \in MemberIds : m # result.ret /\ members[m].total_fines > 0

\* an identifier that was never handed out was asked for, with loans on record
C26_WitnessAbsent ==
    /\ result.op = "view_member_info" /\ result.msg = Message.no_member
    /\ LoanPairs # {}

\* C27: a book or member identifier that is in the ledger is in it after
\* every step, under the same identifier and, for a book, the same ISBN, and no
\* step lowers a book's total_copies
C27_NothingDeleted ==
    [][/\ \A b \in BookIds :
            /\ b \in DOMAIN books'
            /\ books'[b].book_id = books[b].book_id
            /\ books'[b].isbn = books[b].isbn
            /\ books'[b].total_copies >= books[b].total_copies
       /\ \A m \in MemberIds :
            /\ m \in DOMAIN members'
            /\ members'[m].member_id = members[m].member_id
      ]_vars

\* a merge into the first of two books, which has a copy on loan, on a ledger
\* with two members
C27_Witness ==
    /\ result.op = "add_book" /\ result.ok /\ result.ret = FirstBookId
    /\ Cardinality(BookIds) = 2 /\ Cardinality(MemberIds) = 2
    /\ books[FirstBookId].total_copies = 2
    /\ ActiveLoans(FirstBookId) = 1

\* C28: a ledger's add_book and register_member hand out the identifiers they
\* hand out when the program has no other ledger, whatever is registered on
\* another ledger in between: the first book gets 1, the first member 100, and
\* each later one the identifier after the ledger's last
C28_NoInterference ==
    [][/\ \A b \in DOMAIN books' \ BookIds : b = FirstBookId + Cardinality(BookIds)
       /\ \A m \in DOMAIN members' \ MemberIds : m = FirstMemberId + Cardinality(MemberIds)
      ]_vars

\* C29: after every create_account, deposit and withdraw each account's balance
\* is >= 0; a withdraw of more than the balance is refused and changes no
\* account; a withdraw of the whole of a positive balance succeeds and leaves 0
C29_OverdraftPrevention ==
    [][/\ \A a \in DOMAIN accounts' : FLessEq(Zero, accounts'[a].balance)
       /\ \A a \in AccountInputs, amount \in AmountInputs :
            (a \in DOMAIN accounts /\ Bank_withdraw(a, amount))
            => /\ FLess(accounts[a].balance, Float[amount])
                     => (~result'.ok /\ accounts' = accounts)
               /\ (Float[amount] = accounts[a].balance /\ FLess(Zero, Float[amount]))
                     => (result'.ok /\ accounts'[a].balance = Zero)
      ]_vars

\* C29 without the not-a-number: the same, for the amounts that float() reads
\* as finite numbers
C29_FiniteAmounts ==
    [][(\A a \in DOMAIN accounts' : accounts'[a].balance.k = "fin")
          => /\ \A a \in DOMAIN accounts' : FLessEq(Zero, accounts'[a].balance)
             /\ \A a \in AccountInputs, amount \in AmountInputs :
                  (a \in DOMAIN accounts /\ Bank_withdraw(a, amount))
                  => /\ FLess(accounts[a].balance, Float[amount])
                           => (~result'.ok /\ accounts' = accounts)
                     /\ (Float[amount] = accounts[a].balance /\ FLess(Zero, Float[amount]))
                           => (result'.ok /\ accounts'[a].balance = Zero)
      ]_vars

\* C30: an add_book with an ISBN that is indexed changes the total_copies and
\* available_copies of the entry it merges into and nothing else: the entry's
\* title, author, ISBN, identifier and loan records, the other books, the
\* members and the ISBN index stay, whatever title and author the call gives
C30_MergeFrame ==
    [][\A title \in CatalogTitleInputs, author \in ShelfAuthorInputs, isbn \in IsbnInputs,
          copies \in 1..MaxCopies :
          (Strip(isbn) \in DOMAIN isbn_index /\ Library_add_book(title, author, isbn, copies))
          => LET b == isbn_index[Strip(isbn)]
             IN  /\ DOMAIN books' = BookIds
                 /\ books'[b].title = books[b].title
                 /\ books'[b].author = books[b].author
                 /\ books'[b].isbn = books[b].isbn
                 /\ books'[b].book_id = books[b].book_id
                 /\ books'[b].issued_to = books[b].issued_to
                 /\ \A o \in BookIds \ {b} : books'[o] = books[o]
                 /\ members' = members
                 /\ isbn_index' = isbn_index
      ]_vars

\* a merge into the first of two books of different titles and authors, which
\* has a copy on loan
C30_Witness ==
    /\ result.op = "add_book" /\ result.ok /\ result.ret = FirstBookId
    /\ Cardinality(BookIds) = 2
    /\ ActiveLoans(FirstBookId) = 1
    /\ books[FirstBookId].available_copies = 1
    /\ books[FirstBookId].title # books[FirstBookId + 1].title
    /\ books[FirstBookId].author # books[FirstBookId + 1].author

\* C31: whenever Book.return_book succeeds inside Library.return_book, the
\* Member.return_book call that follows finds the identifier (returns True) and
\* removes one occurrence of it from the member's borrowed list
C31_MemberReturnFinds ==
    [][\A b \in BookIdInputs, m \in MemberIdInputs :
          (/\ b \in BookIds /\ m \in MemberIds
           /\ Library_return_book(b, m)
           /\ Book_return_book(books[b], m, now).ok)
          => LET r == Member_return_book(members[m], b)
             IN  /\ r.found
                 /\ Count(members'[m].borrowed_books, b)
                       = Count(members[m].borrowed_books, b) - 1
      ]_vars

\* after a successful return some member still holds exactly one book
C31_Witness ==
    /\ result.op = "return_book" /\ result.ok
    /\ \E m \in MemberIds : Len(members[m].borrowed_books) = 1

\* issue_book(b, m) as called in the state after the step would succeed
IssuableNext(b, m) ==
    /\ b \in DOMAIN books' /\ m \in DOMAIN members'
    /\ Book_issue_book(books'[b], m, members'[m].name, now').ok

\* C32: in every reachable state return_book succeeds for every active (book,
\* member) loan, whatever the clock reads; and right after a successful return
\* of a book that had no available copy, issue_book of that book succeeds for
\* every registered member without an active loan on it
C32_LoansCloseAndRecirculate ==
    [][\A b \in BookIdInputs, m \in MemberIdInputs :
          /\ (b \in BookIds /\ HasLoan(b, m) /\ Library_return_book(b, m))
             => (result'.ok /\ ~HasLoan(b, m)')
          /\ (/\ b \in BookIds /\ HasLoan(b, m) /\ Library_return_book(b, m)
              /\ books[b].available_copies = 0)
             => \A n \in DOMAIN members' :
                   ~HasLoan(b, n)' => IssuableNext(b, n)
          /\ (/\ b \in BookIds /\ m \in MemberIds /\ ~HasLoan(b, m)
              /\ books[b].available_copies > 0 /\ Library_issue_book(b, m))
             => result'.ok
      ]_vars

\* a two-copy book with both copies out has just had one of them returned: one
\* loan is still active, one copy is free and one member holds no loan on it
C32_Witness ==
    /\ result.op = "return_book" /\ result.ok
    /\ \E b \in BookIds :
          /\ books[b].total_copies = 2
          /\ books[b].available_copies = 1
          /\ ActiveLoans(b) = 1
          /\ \E n \in MemberIds : ~HasLoan(b, n)
    /\ Cardinality(BookIds) = 1

\* C33: for every active loan and every clock reading, view_issued_books and
\* view_member_info flag the loan overdue exactly when now > due_date, and the
\* number of overdue days view_issued_books shows equals the overdue_days that
\* return_book reports for that loan at the same reading
C33_ListingsAgreeWithReturns ==
    [][/\ \A order \in IssuedOrders :
             Library_view_issued_books(order)
             => \A i \in 1..Len(result'.rows) :
                   LET row == result'.rows[i]
                       info == Book_return_book(books[row.book_id], row.member_id, now).info
                   IN  /\ row.is_overdue <=> (now > row.due_date)
                       /\ row.is_overdue <=> info.is_overdue
                       /\ row.is_overdue => (Abs(row.days_remaining) = info.overdue_days)
       /\ \A m \in MemberIdInputs :
             (m \in MemberIds /\ Library_view_member_info(m))
             => \A i \in 1..Len(result'.rows) :
                   result'.rows[i].is_overdue <=> (now > result'.rows[i].due_date)
      ]_vars

\* C33 without the day counts: both listings flag a loan overdue exactly when
\* now > due_date, as return_book does
C33_OverdueFlagsAgree ==
    [][/\ \A order \in IssuedOrders :
             Library_view_issued_books(order)
             => \A i \in 1..Len(result'.rows) :
                   LET row == result'.rows[i]
                       info == Book_return_book(books[row.book_id], row.member_id, now).info
                   IN  /\ row.is_overdue <=> (now > row.due_date)
                       /\ row.is_overdue <=> info.is_overdue
                       /\ row.is_overdue
                             => \/ Abs(row.days_remaining) = info.overdue_days
                                \/ Abs(row.days_remaining) = info.overdue_days + 1
       /\ \A m \in MemberIdInputs :
             (m \in MemberIds /\ Library_view_member_info(m))
             => \A i \in 1..Len(result'.rows) :
                   result'.rows[i].is_overdue <=> (now > result'.rows[i].due_date)
      ]_vars

\* a listing read one tick after the due date: the loan is shown one day overdue
C33_WitnessPartDay ==
    /\ result.op = "view_issued_books"
    /\ Len(result.rows) = 1
    /\ result.rows[1].is_overdue
    /\ result.rows[1].days_remaining = -1
    /\ now = result.rows[1].due_date + 1

\* two floats are equal numbers: nan equals nothing, itself included
FEq(a, b) == a.k # "nan" /\ b.k # "nan" /\ a = b

\* the figures of an account agree: the balance equals the net change of the
\* summary and the balance_after of the last transaction
LedgerConsistent(account) ==
    LET summary == BankAccount_get_account_summary(account)
        history == account.transaction_history
    IN  /\ FEq(account.balance, summary.net_change)
        /\ history # <<>> => FEq(history[Len(history)].balance_after, account.balance)

\* the history of an account after the step is the history before it, or that
\* with one transaction appended
HistoryAppended(a) ==
    /\ a \in DOMAIN accounts'
    /\ LET before == accounts[a].transaction_history
           after == accounts'[a].transaction_history
       IN  \/ after = before
           \/ /\ Len(after) = Len(before) + 1
              /\ SubSeq(after, 1, Len(before)) = before
              /\ FEq(after[Len(after)].balance_after, accounts'[a].balance)

\* C34: after any sequence of operations the balance of every account equals the
\* sum of the amounts of its Deposit and Initial Dep transactions minus the sum
\* of its Withdrawal transactions (the summary's Net Change equals Current
\* Balance), the history only grows by appending, and each transaction's
\* balance_after equals the balance right after that transaction
C34_LedgerConsistency ==
    [][/\ \A a \in DOMAIN accounts' : LedgerConsistent(accounts'[a])
       /\ \A a \in DOMAIN accounts : HistoryAppended(a)
      ]_vars

\* every figure of the account is a finite number
FiniteAccount(account) ==
    /\ account.balance.k = "fin"
    /\ \A i \in 1..Len(account.transaction_history) :
          /\ account.transaction_history[i].amount.k = "fin"
          /\ account.transaction_history[i].balance_after.k = "fin"

\* C34 without nan and inf: an account whose amounts are all finite whole
\* numbers has a consistent ledger, and every history grows by appending
C34_FiniteLedger ==
    [][/\ \A a \in DOMAIN accounts' :
             FiniteAccount(accounts'[a]) => LedgerConsistent(accounts'[a])
       /\ \A a \in DOMAIN accounts :
             FiniteAccount(accounts'[a]) => HistoryAppended(a)
      ]_vars

\* an account with a deposit of 2 and a withdrawal of 1 on record
C34_WitnessDepositWithdrawal ==
    \E a \in DOMAIN accounts :
       /\ Amounts(accounts[a].transaction_history, {"Deposit"}) = <<Fin(2)>>
       /\ Amounts(accounts[a].transaction_history, {"Withdrawal"}) = <<Fin(1)>>
       /\ accounts[a].balance = Fin(1)

\* the step reports a failure and leaves every account and the account counter
\* as they were
Rejected == ~result'.ok /\ UNCHANGED bank

\* C35: a deposit of an amount <= 0, a withdrawal of an amount <= 0 and a
\* withdrawal of an amount > balance each return failure and leave the balance
\* and the transaction_history unchanged; create_account with an empty holder
\* name or a negative initial deposit adds no account and consumes no account
\* number
C35_RejectedChangesNothing ==
    [][/\ \A a \in DOMAIN accounts, s \in AmountInputs :
             /\ (FLessEq(Float[s], Zero) /\ Bank_deposit(a, s)) => Rejected
             /\ (FLessEq(Float[s], Zero) /\ Bank_withdraw(a, s)) => Rejected
             /\ (FLess(accounts[a].balance, Float[s]) /\ Bank_withdraw(a, s)) => Rejected
       /\ \A holder_name \in NameInputs, initial \in InitialInputs :
             (/\ \/ Strip(holder_name) = <<>>
                 \/ (initial # "" /\ FLess(Float[initial], Zero))
              /\ Bank_create_account(holder_name, initial))
             => Rejected
      ]_vars

\* a withdrawal was refused for insufficient funds on an account that holds a
\* positive balance and two transactions
C35_Witness ==
    /\ result.op = "withdraw" /\ ~result.ok
    /\ result.msg = Message.insufficient
    /\ \E a \in DOMAIN accounts :
          /\ accounts[a].balance = Fin(1)
          /\ Len(accounts[a].transaction_history) = 2

\* an account was refused for its negative initial deposit after another was opened
C35_WitnessCreate ==
    /\ result.op = "create_account" /\ ~result.ok
    /\ result.msg = Message.bad_initial
    /\ account_counter = FirstAccountNumber + 1

\* the tasks of a list have pairwise distinct identifiers
DistinctTaskIds(list) ==
    \A i, j \in 1..Len(list) : list[i].task_id = list[j].task_id => i = j

\* C36: after any sequence of add_task, delete_task, mark_completed,
\* mark_pending and a load_tasks of a file written by save_tasks, the tasks of
\* the manager have pairwise distinct task_id values, and a task that is added
\* gets an identifier larger than every identifier a task has had before, the
\* deleted tasks' and the loaded tasks' included
C36_TaskIdsNeverReused ==
    [][/\ DistinctTaskIds(tasks')
       /\ \A title \in TaskTitleInputs, description \in DescriptionInputs,
             priority \in PriorityInputs :
             (TaskManager_add_task(title, description, priority) /\ result'.ok)
             => \A id \in task_ids : result'.ret > id
      ]_vars

\* C36 without the deleted tasks: the identifiers of the list are pairwise
\* distinct, and a task that is added gets an identifier larger than that of
\* every task the list holds
C36_TaskIdsDistinct ==
    [][/\ DistinctTaskIds(tasks')
       /\ \A title \in TaskTitleInputs, description \in DescriptionInputs,
             priority \in PriorityInputs :
             (TaskManager_add_task(title, description, priority) /\ result'.ok)
             => \A id \in TaskIds(tasks) : result'.ret > id
      ]_vars

\* a task was added under an identifier that a deleted task had
C36_WitnessReuse ==
    /\ result.op = "add_task" /\ result.ok
    /\ Len(tasks) = 2
    /\ tasks[2].task_id = 2
    /\ task_id_counter = 3
    /\ task_ids = {1, 2}
    /\ tasks[2].created_at > tasks[1].created_at

\* Task.from_dict(Task.to_dict(task)) as called in the state after the step
RoundTrip(task) == Task_from_dict(Task_to_dict(task), task_id_counter', now').task

\* C37: Task.from_dict(Task.to_dict(t)) reproduces the task_id, title,
\* description, priority, completed flag, created_at and completed_at of every
\* task that add_task, mark_completed and mark_pending lead to, so that
\* load_tasks after save_tasks yields the same tasks in the same order; and
\* every such task has completed true exactly when completed_at is set
C37_PersistenceRoundTrip ==
    [][/\ \A i \in 1..Len(tasks') :
             LET t == tasks'[i]
                 back == RoundTrip(t)
             IN  /\ back.task_id = t.task_id
                 /\ back.title = t.title
                 /\ back.description = t.description
                 /\ back.priority = t.priority
                 /\ back.completed = t.completed
                 /\ back.created_at = t.created_at
                 /\ back.completed_at = t.completed_at
                 /\ t.completed <=> (t.completed_at # NoDatetime)
       /\ FromDicts(TaskManager_save_tasks(tasks').tasks, task_id_counter', now').tasks = tasks'
       /\ (save_file.exists /\ TaskManager_init) => (tasks' = tasks)
      ]_vars

\* the program was started again and loaded two tasks: a pending one, and one
\* that was completed part of a day after the first was created
C37_Witness ==
    /\ result.op = "load_tasks"
    /\ Len(tasks) = 2
    /\ ~tasks[1].completed /\ tasks[1].completed_at = NoDatetime
    /\ tasks[2].completed /\ tasks[2].completed_at = DayTicks + 1
    /\ tasks[1].created_at = 0
    /\ now = MaxTodoTicks

====
